---- MODULE Spec2Model ----
(***************************************************************************)
(* A model of the scripts of blender-nvidia-gb10: the Menger sponge        *)
(* generator of benchmark.py, the Sierpinski generator of                  *)
(* renders/render_glass_fractal.py, the verification script                *)
(* test_blender.py and the seeded placement loops of                       *)
(* renders/render_crystal_cave.py and renders/render_infinite_mirrors.py.  *)
(*                                                                         *)
(* Coordinates and sizes are exact fixed-point numbers: a length l of the  *)
(* program is the integer l * FP (sponge) or l * TFP (tetrahedron), where  *)
(* FP and TFP are chosen so that every division the generators make down   *)
(* to the deepest level is exact.  The program computes in binary floating *)
(* point; the model is the exact arithmetic the floats approximate.        *)
(***************************************************************************)
EXTENDS Integers, Sequences, FiniteSets, TLC

VARIABLES
    mstack,     \* benchmark.py: call stack of menger_sponge, top frame last
    mresult,    \* benchmark.py: the list the root call returned (handles)
    mroot,      \* benchmark.py: arguments of the root call
    mpc,        \* benchmark.py: "start", "running", "done"
    mscene,     \* benchmark.py: host cubes in creation order; handle = index
    tstack,     \* render_glass_fractal.py: call stack of sierpinski
    tobjects,   \* render_glass_fractal.py: the shared list `objects` (handles)
    troot,      \* render_glass_fractal.py: arguments of the root call
    tpc,        \* render_glass_fractal.py: "start", "running", "done"
    tscene,     \* render_glass_fractal.py: host tetrahedra in creation order
    vpc,        \* test_blender.py: the statement about to run
    PASS,       \* test_blender.py: global PASS
    FAIL,       \* test_blender.py: global FAIL
    lines,      \* test_blender.py: the result lines test() printed, in order
    summary,    \* test_blender.py: the tail of the "Results:" line, "" before it
    exitStatus, \* test_blender.py: the process status, -1 while running
    sceneBound, \* test_blender.py: the name `scene` is bound
    rs,         \* test_blender.py: the host scene's render settings
    renders,    \* test_blender.py: the settings each render call ran with
    vdevs,      \* test_blender.py: cuda_devices (their names)
    raisedIn,   \* test_blender.py: per section, the text of the exception caught
    vscene,     \* test_blender.py: the host scene: objects from before the run,
                \*   and what the script built
    condFalse,  \* test_blender.py: the names of the checks whose condition
                \*   evaluated to false
    returned,   \* test_blender.py: the values the calls of test() returned
    pscript,    \* placement: the script both runs execute, "" before the launch
    gen,        \* placement: the parameters of the pseudo-random generator
    ppc,        \* placement: per run, the loop it is in and the loop index
    rng,        \* placement: per run, the state of the module `random`
    placed,     \* placement: per run, the parameters of the objects placed
    sname,      \* benchmark.py / renders/*.py: the script that runs, "" before
    spc,        \* benchmark.py / renders/*.py: the step about to run
    sstatus,    \* benchmark.py / renders/*.py: "idle", "running", "finished", "aborted"
    sscene,     \* benchmark.py / renders/*.py: the host scene: objects from
                \*   before the run, and what the script built
    srs,        \* benchmark.py / renders/*.py: the host scene's render settings
    slog,       \* benchmark.py / renders/*.py: the steps run so far, each with
                \*   its outcome and the scene and settings it ran in
    cstatus,    \* configure_render: "idle", "between" calls, "in call", "aborted"
    cstep,      \* configure_render: the statement about to run, 0 between calls
    cargs,      \* configure_render: the arguments of the latest call
    ccalls,     \* configure_render: the number of calls that have returned
    cworlds,    \* configure_render: bpy.data.worlds, in creation order
    cworld,     \* configure_render: scene.world, an index of cworlds, 0 for None
    crs         \* configure_render: the host scene's render settings

mengerVars == <<mstack, mresult, mroot, mpc, mscene>>

sierpVars == <<tstack, tobjects, troot, tpc, tscene>>

verifyVars ==
    <<vpc, PASS, FAIL, lines, summary, exitStatus, sceneBound, rs, renders, vdevs,
      raisedIn, vscene, condFalse, returned>>

placeVars == <<pscript, gen, ppc, rng, placed>>

scriptVars == <<sname, spc, sstatus, sscene, srs, slog>>

configVars == <<cstatus, cstep, cargs, ccalls, cworlds, cworld, crs>>

vars == <<mengerVars, sierpVars, verifyVars, placeVars, scriptVars, configVars>>

(***************************************************************************)
(* Bounds of the model                                                     *)
(***************************************************************************)
MaxDepth == 2
MaxTetDepth == 4
MaxHostFaults == 2
RngMod == 11
MaxCalls == 3

(***************************************************************************)
(* Arithmetic helpers                                                      *)
(***************************************************************************)
RECURSIVE Pow(_, _)
Pow(b, e) == IF e = 0 THEN 1 ELSE b * Pow(b, e - 1)

Abs(n) == IF n < 0 THEN -n ELSE n

\* Python's bool-to-int coercion in (x == 0) + (y == 0) + (z == 0)
B2I(b) == IF b THEN 1 ELSE 0

(***************************************************************************)
(* benchmark.py: menger_sponge                                             *)
(***************************************************************************)
\* one unit of length in fixed point: division by 3.0 is exact MaxDepth times
FP == Pow(3, MaxDepth)

\* len(materials) of setup_scene
NumMaterials == 4

\* the root call of setup_scene: menger_sponge((0, 0, 0), 3.0, 2, ...)
BenchCenter == <<0, 0, 0>>
BenchSize == 3 * FP
BenchDepth == 2

\* root arguments the model explores
MengerCenters == {BenchCenter, <<FP, -2 * FP, 5>>}
MengerSizes == {BenchSize}
MengerDepths == 0..MaxDepth

\* the nested loops "for x / for y / for z in range(-1, 2)" as one index 0..26
CellX(i) == (i \div 9) - 1
CellY(i) == ((i \div 3) % 3) - 1
CellZ(i) == (i % 3) - 1
NumCells == 27

AxesAtZero(x, y, z) == B2I(x = 0) + B2I(y = 0) + B2I(z = 0)

\* mutant: only the centre cell is skipped ("> 2" for ">= 2")
SkipCellCentreOnly(i) == AxesAtZero(CellX(i), CellY(i), CellZ(i)) > 2

\* "if axes_at_zero >= 2: continue"
SkipCell(i) == AxesAtZero(CellX(i), CellY(i), CellZ(i)) >= 2

\* "step = size / 3.0"
StepOf(size) == size \div 3

\* mutant: the offset is scaled by the parent's size instead of the step
NewCenterBySize(center, step, i) ==
    <<center[1] + CellX(i) * 3 * step,
      center[2] + CellY(i) * 3 * step,
      center[3] + CellZ(i) * 3 * step>>

\* mutant: the x offset is dropped from the child's centre
NewCenterNoX(center, step, i) ==
    <<center[1],
      center[2] + CellY(i) * step,
      center[3] + CellZ(i) * step>>

\* "new_center = (center[0] + x * step, ...)"
NewCenter(center, step, i) ==
    <<center[1] + CellX(i) * step,
      center[2] + CellY(i) * step,
      center[3] + CellZ(i) * step>>

\* mutant: the index is not reduced modulo len(materials)
MaterialIdxNoMod(center) ==
    Abs(center[1] * 7 + center[2] * 13 + center[3] * 19) \div FP

\* "idx = int(abs(center[0] * 7 + center[1] * 13 + center[2] * 19)) % len(materials)"
MaterialIdx(center) ==
    (Abs(center[1] * 7 + center[2] * 13 + center[3] * 19) \div FP) % NumMaterials

\* mutant: the recursive call passes its own depth on
MengerChildDepthSame(depth) == depth

\* "depth - 1" of "menger_sponge(new_center, step, depth - 1, ...)"
MengerChildDepth(depth) == depth - 1

MFrame(center, size, depth) ==
    [center |-> center, size |-> size, depth |-> depth, i |-> 0, objects |-> <<>>]

MTop == mstack[Len(mstack)]

MPop == SubSeq(mstack, 1, Len(mstack) - 1)

\* mutant: the caller keeps only the last child's list ("objects = ..." for
\* "objects.extend(...)")
MDeliverOverwrite(ret) ==
    IF Len(mstack) = 1
    THEN /\ mstack' = <<>>
         /\ mresult' = ret
         /\ mpc' = "done"
    ELSE /\ mstack' = [MPop EXCEPT ![Len(mstack) - 1] =
                          [@ EXCEPT !.objects = ret, !.i = @ + 1]]
         /\ UNCHANGED <<mresult, mpc>>

\* a call returns `ret` to its caller: "objects.extend(menger_sponge(...))" and
\* the loop goes on to the next cell, or the root call returns to setup_scene
MDeliver(ret) ==
    IF Len(mstack) = 1
    THEN /\ mstack' = <<>>
         /\ mresult' = ret
         /\ mpc' = "done"
    ELSE /\ mstack' = [MPop EXCEPT ![Len(mstack) - 1] =
                          [@ EXCEPT !.objects = @ \o ret, !.i = @ + 1]]
         /\ UNCHANGED <<mresult, mpc>>

\* setup_scene calls menger_sponge(center, size, depth, fractal_col, materials)
MengerStart ==
    /\ mpc = "start"
    /\ \E c \in MengerCenters, s \in MengerSizes, d \in MengerDepths :
          /\ mroot' = [center |-> c, size |-> s, depth |-> d]
          /\ mstack' = <<MFrame(c, s, d)>>
    /\ mpc' = "running"
    /\ UNCHANGED <<mresult, mscene>>
    /\ UNCHANGED <<sierpVars, verifyVars, placeVars, scriptVars, configVars>>

\* "if depth == 0": one cube is added to the scene and [obj] is returned
MengerLeaf ==
    /\ mpc = "running"
    /\ MTop.depth = 0
    /\ mscene' = Append(mscene, [location |-> MTop.center, size |-> MTop.size,
                                 material |-> MaterialIdx(MTop.center)])
    /\ MDeliver(<<Len(mscene) + 1>>)
    /\ UNCHANGED mroot
    /\ UNCHANGED <<sierpVars, verifyVars, placeVars, scriptVars, configVars>>

\* a loop iteration that hits "continue"
MengerSkip ==
    /\ mpc = "running"
    /\ MTop.depth # 0
    /\ MTop.i < NumCells
    /\ SkipCell(MTop.i)
    /\ mstack' = [mstack EXCEPT ![Len(mstack)].i = @ + 1]
    /\ UNCHANGED <<mresult, mroot, mpc, mscene>>
    /\ UNCHANGED <<sierpVars, verifyVars, placeVars, scriptVars, configVars>>

\* a loop iteration that calls menger_sponge(new_center, step, depth - 1, ...)
MengerRecurse ==
    /\ mpc = "running"
    /\ MTop.depth # 0
    /\ MTop.i < NumCells
    /\ ~SkipCell(MTop.i)
    /\ mstack' = Append(mstack,
                        MFrame(NewCenter(MTop.center, StepOf(MTop.size), MTop.i),
                               StepOf(MTop.size), MengerChildDepth(MTop.depth)))
    /\ UNCHANGED <<mresult, mroot, mpc, mscene>>
    /\ UNCHANGED <<sierpVars, verifyVars, placeVars, scriptVars, configVars>>

\* the loops are over: "return objects"
MengerReturn ==
    /\ mpc = "running"
    /\ MTop.depth # 0
    /\ MTop.i = NumCells
    /\ MDeliver(MTop.objects)
    /\ UNCHANGED <<mroot, mscene>>
    /\ UNCHANGED <<sierpVars, verifyVars, placeVars, scriptVars, configVars>>

MengerInit ==
    /\ mstack = <<>>
    /\ mresult = <<>>
    /\ mroot = [center |-> BenchCenter, size |-> BenchSize, depth |-> BenchDepth]
    /\ mpc = "start"
    /\ mscene = <<>>

MengerNext ==
    \/ MengerStart
    \/ MengerLeaf
    \/ MengerSkip
    \/ MengerRecurse
    \/ MengerReturn

(***************************************************************************)
(* renders/render_glass_fractal.py: tetrahedron_verts, sierpinski          *)
(***************************************************************************)
\* one unit of length in fixed point: the thousandths of tetrahedron_verts and
\* MaxTetDepth halvings are exact
TFP == 1000 * Pow(2, MaxTetDepth)

\* len(materials) of the module body
NumGlass == 4

\* the module body's call: sierpinski((0, 0, 0), 3.0, 4, materials, objects)
GlassCenter == <<0, 0, 0>>
GlassSize == 3 * TFP
GlassDepth == 4

SierpCenters == {GlassCenter, <<TFP, -3 * TFP, 2 * TFP>>}
SierpSizes == {GlassSize}
SierpDepths == 0..MaxTetDepth

\* s * m / 1000 for a literal of m thousandths (s * 0.612 is TMul(s, 612))
TMul(s, m) == (s * m) \div 1000

\* tetrahedron_verts(center, size): the four vertices, in list order
TetVerts(center, size) ==
    <<  <<center[1], center[2], center[3] + TMul(size, 612)>>,
        <<center[1] + TMul(size, 500), center[2] - TMul(size, 289),
          center[3] - TMul(size, 204)>>,
        <<center[1] - TMul(size, 500), center[2] - TMul(size, 289),
          center[3] - TMul(size, 204)>>,
        <<center[1], center[2] + TMul(size, 577), center[3] - TMul(size, 204)>>  >>

\* mutant: the child is centred on the vertex itself, not on the midpoint
MidAtVertex(center, v) == v

\* "mid = ((center[0] + v[0]) / 2, (center[1] + v[1]) / 2, (center[2] + v[2]) / 2)"
Mid(center, v) ==
    <<(center[1] + v[1]) \div 2, (center[2] + v[2]) \div 2,
      (center[3] + v[3]) \div 2>>

\* mutant: the child is given the caller's size
HalfOfKeepsSize(size) == size

\* "half = size / 2.0"
HalfOf(size) == size \div 2

\* mutant: the loop stops one vertex early
VertsLeftButOne(f) == f.vi < Len(TetVerts(f.center, f.size))

\* "for v in verts": the frame's loop has a vertex left
VertsLeft(f) == f.vi <= Len(TetVerts(f.center, f.size))

\* mutant: the index is taken after the leaf is counted
GlassMaterialIdxAfterAppend(objects) == (Len(objects) + 1) % NumGlass

\* "mat = materials[len(objects) % len(materials)]": the position in materials
GlassMaterialIdx(objects) == Len(objects) % NumGlass

\* "depth - 1" of "sierpinski(mid, half, depth - 1, materials, objects)"
SierpChildDepth(depth) == depth - 1

TFrame(center, size, depth) ==
    [center |-> center, size |-> size, depth |-> depth, vi |-> 1]

TTop == tstack[Len(tstack)]

TPop == SubSeq(tstack, 1, Len(tstack) - 1)

\* a call returns (None): the caller's loop goes on to its next vertex, or the
\* root call returns to the module body
TReturn ==
    IF Len(tstack) = 1
    THEN /\ tstack' = <<>>
         /\ tpc' = "done"
    ELSE /\ tstack' = [TPop EXCEPT ![Len(tstack) - 1].vi = @ + 1]
         /\ UNCHANGED tpc

\* "objects = []" and the module body's call of sierpinski
SierpStart ==
    /\ tpc = "start"
    /\ \E c \in SierpCenters, s \in SierpSizes, d \in SierpDepths :
          /\ troot' = [center |-> c, size |-> s, depth |-> d]
          /\ tstack' = <<TFrame(c, s, d)>>
    /\ tobjects' = <<>>
    /\ tpc' = "running"
    /\ UNCHANGED tscene
    /\ UNCHANGED <<mengerVars, verifyVars, placeVars, scriptVars, configVars>>

\* "if depth == 0": the material is chosen by the list's length, the
\* tetrahedron is created (create_tetrahedron) and appended to the list
SierpLeaf ==
    /\ tpc = "running"
    /\ TTop.depth = 0
    /\ tscene' = Append(tscene, [center |-> TTop.center, size |-> TTop.size,
                                 verts |-> TetVerts(TTop.center, TTop.size),
                                 material |-> GlassMaterialIdx(tobjects)])
    /\ tobjects' = Append(tobjects, Len(tscene) + 1)
    /\ TReturn
    /\ UNCHANGED troot
    /\ UNCHANGED <<mengerVars, verifyVars, placeVars, scriptVars, configVars>>

\* a loop iteration: sierpinski(mid, half, depth - 1, materials, objects)
SierpRecurse ==
    /\ tpc = "running"
    /\ TTop.depth # 0
    /\ VertsLeft(TTop)
    /\ tstack' = Append(tstack,
                        TFrame(Mid(TTop.center, TetVerts(TTop.center, TTop.size)[TTop.vi]),
                               HalfOf(TTop.size), SierpChildDepth(TTop.depth)))
    /\ UNCHANGED <<tobjects, troot, tpc, tscene>>
    /\ UNCHANGED <<mengerVars, verifyVars, placeVars, scriptVars, configVars>>

\* the loop is over: the call returns
SierpReturn ==
    /\ tpc = "running"
    /\ TTop.depth # 0
    /\ ~VertsLeft(TTop)
    /\ TReturn
    /\ UNCHANGED <<tobjects, troot, tscene>>
    /\ UNCHANGED <<mengerVars, verifyVars, placeVars, scriptVars, configVars>>

SierpInit ==
    /\ tstack = <<>>
    /\ tobjects = <<>>
    /\ troot = [center |-> GlassCenter, size |-> GlassSize, depth |-> GlassDepth]
    /\ tpc = "start"
    /\ tscene = <<>>

SierpNext ==
    \/ SierpStart
    \/ SierpLeaf
    \/ SierpRecurse
    \/ SierpReturn

(***************************************************************************)
(* test_blender.py                                                         *)
(***************************************************************************)
NoExc == "<none>"

\* the try-wrapped sections, in program order, after the Version section
Sections == <<"cuda", "gpu", "cpu", "api", "obj", "blend", "geo", "comp">>

\* the name each section's "except Exception as e" clause reports under
HandlerName(sec) ==
    CASE sec = "cuda" -> "CUDA detection"
      [] sec = "gpu" -> "Cycles GPU render"
      [] sec = "cpu" -> "Cycles CPU render"
      [] sec = "api" -> "Python API"
      [] sec = "obj" -> "OBJ export"
      [] sec = "blend" -> ".blend save"
      [] sec = "geo" -> "Geometry nodes"
      [] sec = "comp" -> "Compositor"

\* the first statement of each section's try block
FirstStmt(sec) ==
    CASE sec = "cuda" -> "cuda_prefs"
      [] sec = "gpu" -> "gpu_scene"
      [] sec = "cpu" -> "cpu_device"
      [] sec = "api" -> "api_monkey"
      [] sec = "obj" -> "obj_export"
      [] sec = "blend" -> "blend_save"
      [] sec = "geo" -> "geo_cube"
      [] sec = "comp" -> "comp_tree"

SecIndex(sec) == CHOOSE k \in 1..Len(Sections) : Sections[k] = sec

\* mutant: one try block around all the sections, an exception ends the checks
AfterSectionAbort(sec) == "summary"

\* where control goes when a section's try statement is left, normally or
\* through its except clause: the next section, or the summary
AfterSection(sec) ==
    IF SecIndex(sec) = Len(Sections)
    THEN "summary"
    ELSE FirstStmt(Sections[SecIndex(sec) + 1])

\* the host statements of the try blocks that have no outcome the script looks
\* at: each either completes and control moves to `next`, or raises.
\*   set: the render setting the statement assigns (field, value), if any
SimpleStmts ==
    { [pc |-> "cuda_prefs", next |-> "cuda_get_devices", sec |-> "cuda", set |-> <<>>],
      [pc |-> "cuda_get_devices", next |-> "cuda_for_type", sec |-> "cuda", set |-> <<>>],
      [pc |-> "gpu_scene", next |-> "gpu_res_x", sec |-> "gpu", set |-> <<>>],
      [pc |-> "gpu_res_x", next |-> "gpu_res_y", sec |-> "gpu",
       set |-> <<"resolution_x", "64">>],
      [pc |-> "gpu_res_y", next |-> "gpu_res_pct", sec |-> "gpu",
       set |-> <<"resolution_y", "64">>],
      [pc |-> "gpu_res_pct", next |-> "gpu_engine", sec |-> "gpu",
       set |-> <<"resolution_percentage", "100">>],
      [pc |-> "gpu_engine", next |-> "gpu_device", sec |-> "gpu",
       set |-> <<"engine", "CYCLES">>],
      [pc |-> "gpu_device", next |-> "gpu_samples", sec |-> "gpu",
       set |-> <<"device", "GPU">>],
      [pc |-> "gpu_samples", next |-> "gpu_filepath", sec |-> "gpu",
       set |-> <<"samples", "4">>],
      [pc |-> "gpu_filepath", next |-> "gpu_render", sec |-> "gpu",
       set |-> <<"filepath", "/tmp/blender_test_gpu.png">>],
      [pc |-> "gpu_render", next |-> "gpu_check", sec |-> "gpu", set |-> <<>>],
      [pc |-> "cpu_device", next |-> "cpu_filepath", sec |-> "cpu",
       set |-> <<"device", "CPU">>],
      [pc |-> "cpu_filepath", next |-> "cpu_render", sec |-> "cpu",
       set |-> <<"filepath", "/tmp/blender_test_cpu.png">>],
      [pc |-> "cpu_render", next |-> "cpu_check", sec |-> "cpu", set |-> <<>>],
      [pc |-> "api_monkey", next |-> "api_obj", sec |-> "api", set |-> <<>>],
      [pc |-> "api_modifier_add", next |-> "api_mod_test", sec |-> "api", set |-> <<>>],
      [pc |-> "api_mat_new", next |-> "api_use_nodes", sec |-> "api", set |-> <<>>],
      [pc |-> "api_use_nodes", next |-> "api_mat_append", sec |-> "api", set |-> <<>>],
      [pc |-> "api_mat_append", next |-> "api_mat_test", sec |-> "api", set |-> <<>>],
      [pc |-> "obj_export", next |-> "obj_check", sec |-> "obj", set |-> <<>>],
      [pc |-> "blend_save", next |-> "blend_check", sec |-> "blend", set |-> <<>>],
      [pc |-> "geo_cube", next |-> "geo_mod_new", sec |-> "geo", set |-> <<>>],
      [pc |-> "geo_mod_new", next |-> "geo_group_new", sec |-> "geo", set |-> <<>>],
      [pc |-> "geo_group_new", next |-> "geo_assign", sec |-> "geo", set |-> <<>>],
      [pc |-> "geo_assign", next |-> "geo_test", sec |-> "geo", set |-> <<>>],
      [pc |-> "comp_tree", next |-> "comp_blur", sec |-> "comp", set |-> <<>>] }

\* the statements that read the name `scene`
UsesScene(pc) ==
    pc \in {"gpu_res_x", "gpu_res_y", "gpu_res_pct", "gpu_engine", "gpu_device",
            "gpu_samples", "gpu_filepath", "cpu_device", "cpu_filepath"}

\* the statements that call bpy.ops.render.render(write_still=True)
IsRender(pc) == pc \in {"gpu_render", "cpu_render"}

\* the checks "exists and size > 0" on a file the section has just written
FileChecks ==
    { [pc |-> "gpu_check", sec |-> "gpu", name |-> "Cycles GPU render"],
      [pc |-> "cpu_check", sec |-> "cpu", name |-> "Cycles CPU render"],
      [pc |-> "obj_check", sec |-> "obj", name |-> "OBJ export"],
      [pc |-> "blend_check", sec |-> "blend", name |-> ".blend save"] }

\* what the host can answer
ExcTexts == {"boom"}
HostVersions == {<<4, 5, 3>>, <<5, 0, 1>>}
DeviceLists == {<<>>, <<"">>, <<"NVIDIA GB10", "CPU">>}
FileSizes == {0, 1024}

\* Python's messages for the exceptions the script's own expressions raise
NameErrorScene == "name 'scene' is not defined"
AttrErrorName == "'NoneType' object has no attribute 'name'"
IndexErrorModifiers == "bpy_prop_collection[index]: index 0 out of range, size 0"

\* "CPU" in name, for the names of DeviceLists
ContainsCPU(name) == name = "CPU"

\* tuple comparison a >= b of Python, on triples
TupleGE(a, b) ==
    \/ a[1] > b[1]
    \/ a[1] = b[1] /\ a[2] > b[2]
    \/ a[1] = b[1] /\ a[2] = b[2] /\ a[3] >= b[3]

\* bpy.app.version_string for bpy.app.version
VersionString(v) == ToString(v[1]) \o "." \o ToString(v[2]) \o "." \o ToString(v[3])

\* "[d.name for d in cuda_devices if d.name != '']"
RECURSIVE GpuNames(_)
GpuNames(devs) ==
    IF devs = <<>> THEN <<>>
    ELSE IF Head(devs) # "" THEN <<Head(devs)>> \o GpuNames(Tail(devs))
    ELSE GpuNames(Tail(devs))

\* '", ".join(names)'
RECURSIVE Join(_)
Join(names) ==
    IF names = <<>> THEN ""
    ELSE IF Len(names) = 1 THEN names[1]
    ELSE names[1] \o ", " \o Join(Tail(names))

\* mutant: only failures are printed
testFailuresOnly(name, condition, detail) ==
    /\ PASS' = IF condition THEN PASS + 1 ELSE PASS
    /\ FAIL' = IF condition THEN FAIL ELSE FAIL + 1
    /\ lines' = IF condition THEN lines
                ELSE Append(lines,
                       [status |-> "FAIL", name |-> name,
                        suffix |-> IF detail # "" THEN " (" \o detail \o ")" ELSE ""])
    /\ returned' = Append(returned, condition)

\* mutant: a failed check is counted in both counters
testCountsPassAlways(name, condition, detail) ==
    /\ PASS' = PASS + 1
    /\ FAIL' = IF condition THEN FAIL ELSE FAIL + 1
    /\ lines' = Append(lines,
                       [status |-> IF condition THEN "PASS" ELSE "FAIL",
                        name |-> name,
                        suffix |-> IF detail # "" THEN " (" \o detail \o ")" ELSE ""])
    /\ returned' = Append(returned, condition)

\* test(name, condition, detail): counts the outcome, prints
\* "  [{status}] {name}{suffix}" and returns condition
test(name, condition, detail) ==
    /\ PASS' = IF condition THEN PASS + 1 ELSE PASS
    /\ FAIL' = IF condition THEN FAIL ELSE FAIL + 1
    /\ lines' = Append(lines,
                       [status |-> IF condition THEN "PASS" ELSE "FAIL",
                        name |-> name,
                        suffix |-> IF detail # "" THEN " (" \o detail \o ")" ELSE ""])
    /\ returned' = Append(returned, condition)

\* the sections left through their except clause because the host raised or
\* returned None (a NameError on `scene` is the script's own)
HostFaults == {sec \in DOMAIN raisedIn : raisedIn[sec] \notin {NoExc, NameErrorScene}}

\* the model lets the host fail in at most MaxHostFaults sections of a run
HostMayFail == Cardinality(HostFaults) < MaxHostFaults

\* "except Exception as e: test(<name>, False, str(e))", then on to the
\* statement after the try statement
Except(sec, e) ==
    /\ test(HandlerName(sec), FALSE, e)
    /\ raisedIn' = [raisedIn EXCEPT ![sec] = e]
    /\ vpc' = AfterSection(sec)

\* mutant: the status is 1 only for two failures or more
ExitStatusOfOffByOne(fail) == IF fail > 1 THEN 1 ELSE 0

\* "if FAIL > 0: sys.exit(1)", else the script runs off its end
ExitStatusOf(fail) == IF fail > 0 THEN 1 ELSE 0

\* mutant: the branches of the summary are swapped
SummaryTailSwapped(fail) ==
    IF fail > 0 THEN " - ALL TESTS PASSED" ELSE ", " \o ToString(fail) \o " FAILED"

\* 'if FAIL > 0: print(f", {FAIL} FAILED") else: print(" - ALL TESTS PASSED")'
SummaryTail(fail) ==
    IF fail > 0 THEN ", " \o ToString(fail) \o " FAILED" ELSE " - ALL TESTS PASSED"

\* the part of the state a step of the script leaves alone unless it says so
VKeep(keep) ==
    /\ "sceneBound" \in keep => UNCHANGED sceneBound
    /\ "rs" \in keep => UNCHANGED rs
    /\ "renders" \in keep => UNCHANGED renders
    /\ "vdevs" \in keep => UNCHANGED vdevs
    /\ "raisedIn" \in keep => UNCHANGED raisedIn
    /\ "counts" \in keep => UNCHANGED <<PASS, FAIL, lines, returned>>
    /\ "vscene" \in keep => UNCHANGED vscene
    /\ "condFalse" \in keep => UNCHANGED condFalse
    /\ UNCHANGED <<summary, exitStatus>>
    /\ UNCHANGED <<mengerVars, sierpVars, placeVars, scriptVars, configVars>>

VHost == {"sceneBound", "rs", "renders", "vdevs", "vscene"}

\* the second argument of a call test(name, condition, detail) has been
\* evaluated
Evaluated(name, condition) ==
    condFalse' = IF condition THEN condFalse ELSE condFalse \cup {name}

\* the objects the statements of the script add to the scene
Adds(pc) ==
    CASE pc = "api_monkey" -> <<"Suzanne">>
      [] pc = "geo_cube" -> <<"Cube.001">>
      [] OTHER -> <<>>

\* 'test("Blender version", bpy.app.version >= (5, 0, 0), bpy.app.version_string)'
VersionCheck ==
    /\ vpc = "version"
    /\ \E v \in HostVersions :
          /\ test("Blender version", TupleGE(v, <<5, 0, 0>>), VersionString(v))
          /\ Evaluated("Blender version", TupleGE(v, <<5, 0, 0>>))
    /\ vpc' = FirstStmt(Sections[1])
    /\ VKeep(VHost \cup {"raisedIn"})

\* a host statement of a try block completes
HostStmtOk ==
    \E st \in SimpleStmts :
       /\ vpc = st.pc
       /\ UsesScene(st.pc) => sceneBound
       /\ vpc' = st.next
       /\ sceneBound' = IF st.pc = "gpu_scene" THEN TRUE ELSE sceneBound
       /\ rs' = IF st.set = <<>> THEN rs ELSE [rs EXCEPT ![st.set[1]] = st.set[2]]
       /\ renders' = IF IsRender(st.pc) THEN Append(renders, rs) ELSE renders
       /\ vscene' = [vscene EXCEPT !.built = @ \o Adds(st.pc)]
       /\ VKeep({"vdevs", "raisedIn", "counts", "condFalse"})

\* a host statement of a try block raises: the section's except clause runs
HostStmtRaises ==
    \E st \in SimpleStmts :
       /\ vpc = st.pc
       /\ UsesScene(st.pc) => sceneBound
       /\ HostMayFail
       /\ \E e \in ExcTexts : Except(st.sec, e)
       /\ renders' = IF IsRender(st.pc) THEN Append(renders, rs) ELSE renders
       /\ VKeep({"sceneBound", "rs", "vdevs", "vscene", "condFalse"})

\* a statement reads `scene` when the GPU section never bound it: NameError
SceneUnbound ==
    \E st \in SimpleStmts :
       /\ vpc = st.pc
       /\ UsesScene(st.pc)
       /\ ~sceneBound
       /\ Except(st.sec, NameErrorScene)
       /\ VKeep(VHost \cup {"condFalse"})

\* "cuda_devices = prefs.get_devices_for_type('CUDA')"
CudaEnumerate ==
    /\ vpc = "cuda_for_type"
    /\ \/ /\ \E devs \in DeviceLists : vdevs' = devs
          /\ vpc' = "cuda_test"
          /\ VKeep({"sceneBound", "rs", "renders", "raisedIn", "counts", "vscene",
                    "condFalse"})
       \/ /\ HostMayFail
          /\ \E e \in ExcTexts : Except("cuda", e)
          /\ VKeep(VHost \cup {"condFalse"})

\* "gpu_names = [...]" and 'test("CUDA devices found", len(gpu_names) > 0, ...)'
CudaTest ==
    /\ vpc = "cuda_test"
    /\ test("CUDA devices found", Len(GpuNames(vdevs)) > 0, Join(GpuNames(vdevs)))
    /\ Evaluated("CUDA devices found", Len(GpuNames(vdevs)) > 0)
    /\ vpc' = "cuda_loop"
    /\ VKeep(VHost \cup {"raisedIn"})

\* "for d in cuda_devices: if d.name and 'CPU' not in d.name: print(... d.use ...)":
\* d.use is read only for a named device that is not a CPU.  cuda_devices is
\* not read after the loop and is dropped.
CudaLoop ==
    /\ vpc = "cuda_loop"
    /\ vdevs' = <<>>
    /\ \/ /\ vpc' = AfterSection("cuda")
          /\ VKeep({"sceneBound", "rs", "renders", "raisedIn", "counts", "vscene",
                    "condFalse"})
       \/ /\ HostMayFail
          /\ \E k \in 1..Len(vdevs) : vdevs[k] # "" /\ ~ContainsCPU(vdevs[k])
          /\ \E e \in ExcTexts : Except("cuda", e)
          /\ VKeep({"sceneBound", "rs", "renders", "vscene", "condFalse"})

\* "exists = os.path.exists(outpath)", "size = os.path.getsize(outpath) if
\* exists else 0" and 'test(<name>, exists and size > 0, f"{size} bytes")'
FileCheck ==
    \E fc \in FileChecks :
       /\ vpc = fc.pc
       /\ \/ /\ \E exists \in BOOLEAN, sz \in FileSizes :
                  LET size == IF exists THEN sz ELSE 0
                  IN  /\ test(fc.name, exists /\ size > 0, ToString(size) \o " bytes")
                      /\ Evaluated(fc.name, exists /\ size > 0)
             /\ vpc' = AfterSection(fc.sec)
             /\ VKeep(VHost \cup {"raisedIn"})
          \/ /\ HostMayFail
             /\ \E e \in ExcTexts : Except(fc.sec, e)
             /\ VKeep(VHost \cup {"condFalse"})

\* "obj = bpy.context.active_object" and
\* 'test("Add mesh (Suzanne)", obj is not None, obj.name)': the argument
\* obj.name is evaluated before test is called
ApiObj ==
    /\ vpc = "api_obj"
    /\ \E objIsNone \in {b \in BOOLEAN : b => HostMayFail} :
          IF objIsNone
          THEN /\ Evaluated("Add mesh (Suzanne)", ~objIsNone)
               /\ Except("api", AttrErrorName)
               /\ VKeep(VHost)
          ELSE /\ Evaluated("Add mesh (Suzanne)", ~objIsNone)
               /\ test("Add mesh (Suzanne)", ~objIsNone, "Suzanne")
               /\ vpc' = "api_modifier_add"
               /\ VKeep(VHost \cup {"raisedIn"})

\* 'test("Add modifier", len(obj.modifiers) > 0, obj.modifiers[0].name)': the
\* argument obj.modifiers[0].name is evaluated before test is called
ApiModTest ==
    /\ vpc = "api_mod_test"
    /\ \E nmods \in {n \in 0..1 : n = 0 => HostMayFail} :
          IF nmods = 0
          THEN /\ Evaluated("Add modifier", nmods > 0)
               /\ Except("api", IndexErrorModifiers)
               /\ VKeep(VHost)
          ELSE /\ Evaluated("Add modifier", nmods > 0)
               /\ test("Add modifier", nmods > 0, "Subdivision")
               /\ vpc' = "api_mat_new"
               /\ VKeep(VHost \cup {"raisedIn"})

\* 'test("Material + nodes", mat.node_tree is not None, mat.name)'
ApiMatTest ==
    /\ vpc = "api_mat_test"
    /\ \E hasTree \in BOOLEAN :
          /\ Evaluated("Material + nodes", hasTree)
          /\ test("Material + nodes", hasTree, "TestMat")
    /\ vpc' = AfterSection("api")
    /\ VKeep(VHost \cup {"raisedIn"})

\* 'test("Geometry nodes", mod.node_group is not None, group.name)'
GeoTest ==
    /\ vpc = "geo_test"
    /\ \E hasGroup \in BOOLEAN :
          /\ Evaluated("Geometry nodes", hasGroup)
          /\ test("Geometry nodes", hasGroup, "TestGeoNodes")
    /\ vpc' = AfterSection("geo")
    /\ VKeep(VHost \cup {"raisedIn"})

\* "blur = tree.nodes.new('CompositorNodeBlur')" and
\* 'test("Compositor node", blur is not None, blur.name)': the argument
\* blur.name is evaluated before test is called
CompBlur ==
    /\ vpc = "comp_blur"
    /\ \/ /\ \E blurIsNone \in {b \in BOOLEAN : b => HostMayFail} :
                IF blurIsNone
                THEN /\ Evaluated("Compositor node", ~blurIsNone)
                     /\ Except("comp", AttrErrorName)
                     /\ VKeep(VHost)
                ELSE /\ Evaluated("Compositor node", ~blurIsNone)
                     /\ test("Compositor node", ~blurIsNone, "Blur")
                     /\ vpc' = AfterSection("comp")
                     /\ VKeep(VHost \cup {"raisedIn"})
       \/ /\ HostMayFail
          /\ \E e \in ExcTexts : Except("comp", e)
          /\ VKeep(VHost \cup {"condFalse"})

\* "total = PASS + FAIL" and the "Results:" line
Summary ==
    /\ vpc = "summary"
    /\ summary' = "Results: " \o ToString(PASS) \o "/" \o ToString(PASS + FAIL)
                    \o " passed" \o SummaryTail(FAIL)
    /\ vpc' = "exit"
    /\ UNCHANGED <<PASS, FAIL, lines, exitStatus, sceneBound, rs, renders, vdevs,
                   raisedIn, vscene, condFalse, returned>>
    /\ UNCHANGED <<mengerVars, sierpVars, placeVars, scriptVars, configVars>>

\* "if FAIL > 0: sys.exit(1)"
Exit ==
    /\ vpc = "exit"
    /\ exitStatus' = ExitStatusOf(FAIL)
    /\ vpc' = "done"
    /\ UNCHANGED <<PASS, FAIL, lines, summary, sceneBound, rs, renders, vdevs,
                   raisedIn, vscene, condFalse, returned>>
    /\ UNCHANGED <<mengerVars, sierpVars, placeVars, scriptVars, configVars>>

\* the objects of the host's scene after --factory-startup
FactoryObjects == {"Cube", "Light", "Camera"}

\* the host's render settings after --factory-startup
FactorySettings ==
    [resolution_x |-> "1920", resolution_y |-> "1080",
     resolution_percentage |-> "100", engine |-> "BLENDER_EEVEE",
     device |-> "CPU", samples |-> "4096", filepath |-> "/tmp/",
     file_format |-> "PNG", color_depth |-> "8"]

VerifyInit ==
    /\ vpc = "version"
    /\ PASS = 0
    /\ FAIL = 0
    /\ lines = <<>>
    /\ summary = ""
    /\ exitStatus = -1
    /\ sceneBound = FALSE
    /\ rs = FactorySettings
    /\ renders = <<>>
    /\ vdevs = <<>>
    /\ raisedIn = [k \in {Sections[j] : j \in 1..Len(Sections)} |-> NoExc]
    /\ vscene = [prior |-> FactoryObjects, built |-> <<>>]
    /\ condFalse = {}
    /\ returned = <<>>

VerifyNext ==
    \/ VersionCheck
    \/ HostStmtOk
    \/ HostStmtRaises
    \/ SceneUnbound
    \/ CudaEnumerate
    \/ CudaTest
    \/ CudaLoop
    \/ FileCheck
    \/ ApiObj
    \/ ApiModTest
    \/ ApiMatTest
    \/ GeoTest
    \/ CompBlur
    \/ Summary
    \/ Exit

(***************************************************************************)
(* renders/render_crystal_cave.py and renders/render_infinite_mirrors.py:  *)
(* the seeded placement loops, and renders/render_golden_spiral.py: the    *)
(* spiral loop, each run twice side by side.                               *)
(*                                                                         *)
(* The module `random` is a deterministic generator: seed(n) sets its      *)
(* state from n alone and every draw is a function of the state.  The      *)
(* model's generator has RngMod states and steps by s -> (a*s + c) mod     *)
(* RngMod for parameters (a, c) fixed at the launch; random() is the new   *)
(* state u, standing for u / RngMod.  uniform(lo, hi) = lo + (hi - lo) *   *)
(* random() is kept exact: with lo and hi in hundredths its value is       *)
(* lo*RngMod + (hi - lo)*u in units of 1/(100*RngMod).  An angle           *)
(* uniform(0, 2*pi) is kept as u, in units of 2*pi/RngMod, and the point   *)
(* (r*cos(angle), r*sin(angle)) as the pair (r, angle) it is computed      *)
(* from.                                                                   *)
(***************************************************************************)
\* the two independent runs of a script
Runs == {1, 2}

\* the scripts that call random.seed(42)
SeededScripts == {"crystal_cave", "infinite_mirrors"}

Scripts == SeededScripts \cup {"golden_spiral"}

Generators == {[a |-> 2, c |-> 1], [a |-> 6, c |-> 3]}

\* "for i in range(20)", "for i in range(12)", "for i in range(10)" of the cave
GroundCount == 20
SideCount == 12
CeilingCount == 10
\* len(crystal_mats)
NumCrystalMats == 6
\* len(edge_positions), "for i in range(12)" and len(neon_colors) of the corridor
EdgeCount == 4
BarCount == 12
NumNeon == 5

Unseeded == -1

\* the generator before the launch, and of a script that never seeds it
NoGenerator == [a |-> 1, c |-> 0]

\* "n_spheres = 300" and len(materials) of the spiral
n_spheres == 300
NumSpiralMats == 5

\* "theta = i * golden_angle", in units of golden_angle = pi * (3 - sqrt(5))
SpiralTheta(i) == i

\* mutant: the index is counted from 1
SpiralRadiusSqOneBased(i) == 225 * (i + 1)

\* "r = 0.15 * math.sqrt(i)": r is kept as its square 0.0225 * i, in units of
\* 1/10000
SpiralRadiusSq(i) == 225 * i

\* "sphere_size = 0.08 + 0.06 * (1 - i / n_spheres)", in units of
\* 0.06 / n_spheres: 0.08 is 400 units and 0.06 is 300
SphereSize(i) == 400 + (n_spheres - i)

\* mutant: "random.seed()": the state comes from the run's own entropy
RngSeedEntropy(run) == run % RngMod

\* "random.seed(42)" in a run
RngSeed(run) == 42 % RngMod

\* one step of the generator
RngNext(s) == (gen.a * s + gen.c) % RngMod

\* the next n outputs of the generator in state s, in order
RECURSIVE Draws(_, _)
Draws(s, n) == IF n = 0 THEN <<>> ELSE <<RngNext(s)>> \o Draws(RngNext(s), n - 1)

\* random.uniform(lo, hi) for the output u, lo and hi in hundredths
Uniform(lo, hi, u) == lo * RngMod + (hi - lo) * u

\* random.randint(lo, hi) for the output u
RandInt(lo, hi, u) == lo + (u * (hi - lo + 1)) \div RngMod

PGoto(r, phase) == ppc' = [ppc EXCEPT ![r] = [phase |-> phase, i |-> 0]]

PAdvance(r, count, nextPhase) ==
    IF ppc[r].i + 1 < count
    THEN ppc' = [ppc EXCEPT ![r].i = @ + 1]
    ELSE PGoto(r, nextPhase)

\* both runs of a script are launched
PlaceLaunch ==
    /\ pscript = ""
    /\ pscript' \in Scripts
    /\ gen' \in (IF pscript' \in SeededScripts THEN Generators ELSE {NoGenerator})
    /\ ppc' = [r \in Runs |->
                 [phase |-> IF pscript' \in SeededScripts THEN "seed" ELSE "spheres",
                  i |-> 0]]
    /\ UNCHANGED <<rng, placed>>
    /\ UNCHANGED <<mengerVars, sierpVars, verifyVars, scriptVars, configVars>>

\* "random.seed(42)", the first statement of each script after its imports
RunSeed(r) ==
    /\ pscript # ""
    /\ ppc[r].phase = "seed"
    /\ rng' = [rng EXCEPT ![r] = RngSeed(r)]
    /\ PGoto(r, IF pscript = "crystal_cave" THEN "ground" ELSE "edges")
    /\ UNCHANGED <<pscript, gen, placed>>
    /\ UNCHANGED <<mengerVars, sierpVars, verifyVars, scriptVars, configVars>>

\* one iteration of "Ground cluster (center)": angle, r, h, rad, tilt, the
\* material index and, inside create_crystal, the z rotation
CaveGround(r) ==
    /\ pscript = "crystal_cave"
    /\ ppc[r].phase = "ground"
    /\ LET d == Draws(rng[r], 8)
       IN  /\ placed' = [placed EXCEPT ![r] = Append(@,
                 [loc |-> <<"polar", Uniform(0, 150, d[2]), d[1], 0>>,
                  height |-> Uniform(50, 250, d[3]),
                  radius |-> Uniform(6, 18, d[4]),
                  tilt |-> <<Uniform(-1500, 1500, d[5]), Uniform(-1500, 1500, d[6])>>,
                  mat |-> RandInt(0, NumCrystalMats - 1, d[7]),
                  zrot |-> Uniform(0, 36000, d[8])])]
           /\ rng' = [rng EXCEPT ![r] = d[8]]
    /\ PAdvance(r, GroundCount, "side")
    /\ UNCHANGED <<pscript, gen>>
    /\ UNCHANGED <<mengerVars, sierpVars, verifyVars, scriptVars, configVars>>

\* one iteration of "Side cluster (left)"
CaveSide(r) ==
    /\ pscript = "crystal_cave"
    /\ ppc[r].phase = "side"
    /\ LET d == Draws(rng[r], 8)
       IN  /\ placed' = [placed EXCEPT ![r] = Append(@,
                 [loc |-> <<"xyz", Uniform(-350, -150, d[1]), Uniform(-100, 200, d[2]), 0>>,
                  height |-> Uniform(30, 150, d[3]),
                  radius |-> Uniform(4, 12, d[4]),
                  tilt |-> <<Uniform(-2000, 2000, d[5]), Uniform(-2000, 2000, d[6])>>,
                  mat |-> RandInt(0, NumCrystalMats - 1, d[7]),
                  zrot |-> Uniform(0, 36000, d[8])])]
           /\ rng' = [rng EXCEPT ![r] = d[8]]
    /\ PAdvance(r, SideCount, "ceiling")
    /\ UNCHANGED <<pscript, gen>>
    /\ UNCHANGED <<mengerVars, sierpVars, verifyVars, scriptVars, configVars>>

\* one iteration of "Ceiling stalactites": the tilt is the literal (180, 0)
CaveCeiling(r) ==
    /\ pscript = "crystal_cave"
    /\ ppc[r].phase = "ceiling"
    /\ LET d == Draws(rng[r], 6)
       IN  /\ placed' = [placed EXCEPT ![r] = Append(@,
                 [loc |-> <<"xyz", Uniform(-200, 200, d[1]), Uniform(-100, 300, d[2]), 5>>,
                  height |-> Uniform(50, 180, d[3]),
                  radius |-> Uniform(5, 14, d[4]),
                  tilt |-> <<180 * 100 * RngMod, 0>>,
                  mat |-> RandInt(0, NumCrystalMats - 1, d[5]),
                  zrot |-> Uniform(0, 36000, d[6])])]
           /\ rng' = [rng EXCEPT ![r] = d[6]]
    /\ PAdvance(r, CeilingCount, "done")
    /\ UNCHANGED <<pscript, gen>>
    /\ UNCHANGED <<mengerVars, sierpVars, verifyVars, scriptVars, configVars>>

\* one iteration of the corridor's edge-strip loop: position and colour are
\* the idx-th entries of the literal lists
MirrorEdge(r) ==
    /\ pscript = "infinite_mirrors"
    /\ ppc[r].phase = "edges"
    /\ placed' = [placed EXCEPT ![r] = Append(@,
          [kind |-> "edge", pos |-> ppc[r].i, color |-> ppc[r].i])]
    /\ PAdvance(r, EdgeCount, "bars")
    /\ UNCHANGED <<pscript, gen, rng>>
    /\ UNCHANGED <<mengerVars, sierpVars, verifyVars, scriptVars, configVars>>

\* one iteration of the corridor's cross-bar loop: "y = 0.8 + i * 1.1" (in
\* tenths), "color = neon_colors[i % len(neon_colors)]", four bars
MirrorBars(r) ==
    /\ pscript = "infinite_mirrors"
    /\ ppc[r].phase = "bars"
    /\ LET i == ppc[r].i
           bar(kind) == [kind |-> kind, pos |-> 8 + i * 11, color |-> i % NumNeon]
       IN  placed' = [placed EXCEPT ![r] =
              @ \o <<bar("ceil"), bar("floor"), bar("lwall"), bar("rwall")>>]
    /\ PAdvance(r, BarCount, "done")
    /\ UNCHANGED <<pscript, gen, rng>>
    /\ UNCHANGED <<mengerVars, sierpVars, verifyVars, scriptVars, configVars>>

\* one iteration of "for i in range(n_spheres)" of the spiral: the sphere is
\* added at (r cos theta, r sin theta, sphere_size), kept as the pair (r^2,
\* theta) the position is computed from, with materials[i % len(materials)]
SpiralSphere(r) ==
    /\ pscript = "golden_spiral"
    /\ ppc[r].phase = "spheres"
    /\ LET i == ppc[r].i
       IN  placed' = [placed EXCEPT ![r] = Append(@,
              [rsq |-> SpiralRadiusSq(i), theta |-> SpiralTheta(i),
               size |-> SphereSize(i), mat |-> i % NumSpiralMats])]
    /\ PAdvance(r, n_spheres, "done")
    /\ UNCHANGED <<pscript, gen, rng>>
    /\ UNCHANGED <<mengerVars, sierpVars, verifyVars, scriptVars, configVars>>

PlaceInit ==
    /\ pscript = ""
    /\ gen = NoGenerator
    /\ ppc = [r \in Runs |-> [phase |-> "idle", i |-> 0]]
    /\ rng = [r \in Runs |-> Unseeded]
    /\ placed = [r \in Runs |-> <<>>]

PlaceNext ==
    \/ PlaceLaunch
    \/ \E r \in Runs : RunSeed(r)
    \/ \E r \in Runs : CaveGround(r)
    \/ \E r \in Runs : CaveSide(r)
    \/ \E r \in Runs : CaveCeiling(r)
    \/ \E r \in Runs : MirrorEdge(r)
    \/ \E r \in Runs : MirrorBars(r)
    \/ \E r \in Runs : SpiralSphere(r)

(***************************************************************************)
(* benchmark.py and renders/render_*.py as straight-line programs: the     *)
(* statements of each script in program order, grouped into steps.  A step *)
(* is a group of host API calls: it completes, or one of its calls raises. *)
(* The geometry loops are single steps here; menger_sponge, sierpinski and *)
(* the placement loops are modelled statement by statement above.          *)
(***************************************************************************)
ScriptNames ==
    {"benchmark", "glass_fractal", "crystal_cave", "infinite_mirrors",
     "golden_spiral"}

\* OUTPUT_DIR of benchmark.py and the directory of OUTPUT in the render scripts
OUTPUT_DIR == "/tmp/blender_benchmark"
RendersDir == "/tmp/blender_renders"

\* os.path.join(dir, name)
PathJoin(dir, name) == dir \o "/" \o name

\* the objects of the host's scene when a script starts: none, or those of
\* the factory startup file
PriorScenes == {{}, FactoryObjects}

\* the host's render settings when a script starts: the factory's, or those
\* of a startup file saved with other output settings
HostSettings ==
    {FactorySettings,
     [FactorySettings EXCEPT !.file_format = "JPEG", !.filepath = "//render/"]}

Step(op, what, field, value) ==
    [op |-> op, what |-> what, field |-> field, value |-> value]

\* clear_scene() / clear(): select_all(action='SELECT') and object.delete()
SClear == Step("clear", "clear", "", "")
\* host calls that create materials, meshes, lights, a camera or a world
SMake(what) == Step("make", what, "", "")
\* an assignment to one of the render settings the model follows
SSet(field, value) == Step("set", field, field, value)
\* other host calls: Cycles options, film, device preferences
SHost(what) == Step("host", what, "", "")
\* bpy.ops.render.render(write_still=True)
SRender == Step("render", "render", "", "")
\* the prints after the render(s), with os.path.getsize
SReport == Step("report", "report", "", "")
\* bpy.ops.wm.save_as_mainfile(filepath=blend_path)
SSave == Step("save", "benchmark_scene.blend", "", "")

\* mutant: the output settings are left out of configure_render
configure_renderNoOutput(samples, resolution) ==
    << SSet("engine", "CYCLES"), SSet("device", "GPU"),
       SSet("samples", ToString(samples)), SHost("use_denoising"),
       SHost("prefs"),
       SSet("resolution_x", ToString(resolution[1])),
       SSet("resolution_y", ToString(resolution[2])),
       SSet("resolution_percentage", "100"), SHost("film_transparent"),
       SMake("world") >>

\* configure_render(samples, resolution) of benchmark.py, statement by statement
configure_render(samples, resolution) ==
    << SSet("engine", "CYCLES"), SSet("device", "GPU"),
       SSet("samples", ToString(samples)), SHost("use_denoising"),
       SHost("prefs"),
       SSet("resolution_x", ToString(resolution[1])),
       SSet("resolution_y", ToString(resolution[2])),
       SSet("resolution_percentage", "100"), SHost("film_transparent"),
       SMake("world"),
       SSet("file_format", "PNG"), SSet("color_depth", "16") >>

\* the three renders of run_benchmark: samples, resolution, output file
BenchRenders ==
    << [samples |-> 16, resolution |-> <<480, 270>>, file |-> "benchmark_preview.png"],
       [samples |-> 64, resolution |-> <<1280, 720>>, file |-> "benchmark_720p.png"],
       [samples |-> 128, resolution |-> <<1920, 1080>>, file |-> "benchmark_1080p.png"] >>

\* mutant: the output path is set once, before the first render only
BenchRenderStepsOnePath(k) ==
    configure_render(BenchRenders[k].samples, BenchRenders[k].resolution)
      \o (IF k = 1
          THEN <<SSet("filepath", PathJoin(OUTPUT_DIR, BenchRenders[k].file))>>
          ELSE <<>>)
      \o <<SRender>>

\* the k-th render of run_benchmark: configure_render(...), the output path,
\* the render call
BenchRenderSteps(k) ==
    configure_render(BenchRenders[k].samples, BenchRenders[k].resolution)
      \o <<SSet("filepath", PathJoin(OUTPUT_DIR, BenchRenders[k].file)), SRender>>

\* setup_scene()
setup_scene ==
    << SClear, SMake("materials"), SMake("Menger Sponge collection"),
       SMake("sponge"), SMake("Ground"), SMake("Core Light"),
       SMake("area lights"), SMake("Benchmark Camera") >>

\* run_benchmark()
run_benchmark ==
    setup_scene \o BenchRenderSteps(1) \o BenchRenderSteps(2) \o BenchRenderSteps(3)
      \o <<SReport, SSave>>

\* the "Render" block that ends each render script: settings, device
\* preferences, output path, render, report
RenderBlock(samples, output) ==
    << SSet("engine", "CYCLES"), SSet("device", "GPU"),
       SSet("samples", ToString(samples)), SHost("cycles options"),
       SSet("resolution_x", "1280"), SSet("resolution_y", "720"),
       SSet("resolution_percentage", "100"), SHost("film_transparent"),
       SSet("file_format", "PNG"), SSet("color_depth", "16"),
       SHost("prefs"), SSet("filepath", output), SRender, SReport >>

\* the module body of each render script up to its "Render" block
ScriptBuild(name) ==
    CASE name = "glass_fractal" ->
           << SClear, SMake("materials"), SMake("tetrahedra"), SMake("ground"),
              SMake("lights"), SMake("camera"), SMake("world") >>
      [] name = "crystal_cave" ->
           << SClear, SMake("materials"), SMake("floor"), SMake("crystals"),
              SMake("point lights"), SMake("area lights"), SMake("camera"),
              SMake("world") >>
      [] name = "infinite_mirrors" ->
           << SClear, SMake("materials"), SMake("corridor"), SMake("edge strips"),
              SMake("cross bars"), SMake("camera"), SMake("world") >>
      [] name = "golden_spiral" ->
           << SClear, SMake("materials"), SMake("spheres"), SMake("orbs"),
              SMake("ground"), SMake("lights"), SMake("camera"), SMake("world") >>

\* "scene.cycles.samples = ..." of each render script
ScriptSamples(name) ==
    CASE name = "glass_fractal" -> 512
      [] name = "crystal_cave" -> 384
      [] name = "infinite_mirrors" -> 512
      [] name = "golden_spiral" -> 384

\* the statements of a script, in program order
Steps(name) ==
    IF name = "benchmark"
    THEN run_benchmark
    ELSE ScriptBuild(name)
           \o RenderBlock(ScriptSamples(name), PathJoin(RendersDir, name \o ".png"))

\* mutant: select_all deselects, and delete() removes nothing
DeletedSelectionNone(objects) == objects

\* what is left of the scene's objects after select_all(action='SELECT') and
\* object.delete()
DeletedSelection(objects) == {}

\* mutant: the exception is swallowed and the script goes on with the next step
UnhandledSwallowed(pc) == [status |-> "running", pc |-> pc + 1]

\* an exception no try statement encloses: the script ends there
Unhandled(pc) == [status |-> "aborted", pc |-> pc]

SCur == Steps(sname)[spc]

SAt(op) == sstatus = "running" /\ SCur.op = op

SEntry(ok) ==
    [op |-> SCur.op, what |-> SCur.what, ok |-> ok, prior |-> sscene.prior,
     rs |-> srs]

\* a step has completed: on to the next statement, or off the script's end
SCompleted ==
    /\ slog' = Append(slog, SEntry(TRUE))
    /\ spc' = spc + 1
    /\ sstatus' = IF spc = Len(Steps(sname)) THEN "finished" ELSE "running"
    /\ UNCHANGED sname
    /\ UNCHANGED <<mengerVars, sierpVars, verifyVars, placeVars, configVars>>

\* "blender -b --python <script>": the script starts in the host's state
ScriptLaunch ==
    /\ sstatus = "idle"
    /\ sname' \in ScriptNames
    /\ spc' = 1
    /\ sstatus' = "running"
    /\ \E prior \in PriorScenes : sscene' = [prior |-> prior, built |-> <<>>]
    /\ srs' \in HostSettings
    /\ UNCHANGED slog
    /\ UNCHANGED <<mengerVars, sierpVars, verifyVars, placeVars, configVars>>

StepClear ==
    /\ SAt("clear")
    /\ sscene' = [prior |-> DeletedSelection(sscene.prior), built |-> <<>>]
    /\ UNCHANGED srs
    /\ SCompleted

StepMake ==
    /\ SAt("make")
    /\ sscene' = [sscene EXCEPT !.built = Append(@, SCur.what)]
    /\ UNCHANGED srs
    /\ SCompleted

StepSet ==
    /\ SAt("set")
    /\ srs' = [srs EXCEPT ![SCur.field] = SCur.value]
    /\ UNCHANGED sscene
    /\ SCompleted

StepHost ==
    /\ SAt("host")
    /\ UNCHANGED <<sscene, srs>>
    /\ SCompleted

StepRender ==
    /\ SAt("render")
    /\ UNCHANGED <<sscene, srs>>
    /\ SCompleted

StepReport ==
    /\ SAt("report")
    /\ UNCHANGED <<sscene, srs>>
    /\ SCompleted

StepSave ==
    /\ SAt("save")
    /\ UNCHANGED <<sscene, srs>>
    /\ SCompleted

\* a host call of the step raises: nothing in these scripts catches it
StepRaises ==
    /\ sstatus = "running"
    /\ slog' = Append(slog, SEntry(FALSE))
    /\ sstatus' = Unhandled(spc).status
    /\ spc' = Unhandled(spc).pc
    /\ UNCHANGED <<sname, sscene, srs>>
    /\ UNCHANGED <<mengerVars, sierpVars, verifyVars, placeVars, configVars>>

ScriptInit ==
    /\ sname = ""
    /\ spc = 0
    /\ sstatus = "idle"
    /\ sscene = [prior |-> {}, built |-> <<>>]
    /\ srs = FactorySettings
    /\ slog = <<>>

ScriptNext ==
    \/ ScriptLaunch
    \/ StepClear
    \/ StepMake
    \/ StepSet
    \/ StepHost
    \/ StepRender
    \/ StepReport
    \/ StepSave
    \/ StepRaises

(***************************************************************************)
(* benchmark.py: configure_render called repeatedly in one run.  The       *)
(* statements are those of the table configure_render above; the world     *)
(* block (get or create the world, clear its nodes, build three nodes and  *)
(* two links) is followed node by node.  A node is known by its position   *)
(* in the tree's node list.                                                *)
(***************************************************************************)
BenchmarkWorld == "Benchmark World"

EmptyTree == [nodes |-> <<>>, links |-> {}]

\* the node tree the host gives a world of its own: a background wired to
\* the world output
DefaultWorldTree ==
    [nodes |-> <<"ShaderNodeBackground", "ShaderNodeOutputWorld">>,
     links |-> {[from |-> 1, output |-> "Background", to |-> 2, input |-> "Surface"]}]

\* the node tree of a world after worlds.new(name) and "use_nodes = True":
\* the host's default nodes, or none, by host version
NewWorldTrees == {EmptyTree, DefaultWorldTree}

\* bpy.data.worlds and scene.world when the script starts: the factory
\* startup file has the world "World"; an empty file has none
PriorWorlds ==
    {<<>>, <<[name |-> "World", made |-> FALSE, tree |-> DefaultWorldTree]>>}

\* the arguments the calls are made with
SampleCounts == {16, 64, 128}
Resolutions == {<<480, 270>>, <<1280, 720>>, <<1920, 1080>>}

\* bpy.data.worlds.get(name): the world of that name (its index), or None (0)
WorldsGet(worlds, name) ==
    IF \E k \in 1..Len(worlds) : worlds[k].name = name
    THEN CHOOSE k \in 1..Len(worlds) : worlds[k].name = name
    ELSE 0

\* the host keeps data-block names unique
UniqueName(worlds, name) ==
    IF \E k \in 1..Len(worlds) : worlds[k].name = name
    THEN name \o ".001"
    ELSE name

\* bpy.data.worlds.new(name), with the tree "use_nodes = True" gives it
WorldsNew(worlds, name, tree) ==
    Append(worlds, [name |-> UniqueName(worlds, name), made |-> TRUE, tree |-> tree])

\* mutant: nodes.clear() is left out
NodesClearKeeps(tree) == tree

\* nodes.clear(): every node is removed, and with it the links it has
NodesClear(tree) == EmptyTree

\* nodes.new(type)
NodesNew(tree, type) == [tree EXCEPT !.nodes = Append(@, type)]

\* links.new(from.outputs[output], to.inputs[input]): an input socket holds
\* one link, a new link to it replaces the old one
LinksNew(tree, from, output, to, input) ==
    [tree EXCEPT !.links =
        {l \in @ : ~(l.to = to /\ l.input = input)}
          \cup {[from |-> from, output |-> output, to |-> to, input |-> input]}]

\* the "World" block of configure_render: the worlds and scene.world after it
WorldBlock(worlds, newTree) ==
    LET found == WorldsGet(worlds, BenchmarkWorld)
        ws == IF found # 0 THEN worlds ELSE WorldsNew(worlds, BenchmarkWorld, newTree)
        world == IF found # 0 THEN found ELSE Len(ws)
        t0 == NodesClear(ws[world].tree)
        t1 == NodesNew(t0, "ShaderNodeOutputWorld")
        out == Len(t1.nodes)
        t2 == NodesNew(t1, "ShaderNodeBackground")
        bg == Len(t2.nodes)
        t3 == NodesNew(t2, "ShaderNodeVolumeScatter")
        vol_scatter == Len(t3.nodes)
        t4 == LinksNew(t3, bg, "Background", out, "Surface")
        t5 == LinksNew(t4, vol_scatter, "Volume", out, "Volume")
    IN  [worlds |-> [ws EXCEPT ![world].tree = t5], world |-> world]

CfgCur == configure_render(cargs.samples, cargs.resolution)[cstep]

CfgAt(op) == cstatus = "in call" /\ CfgCur.op = op

\* a statement has completed: on to the next one, or the call returns
CfgCompleted ==
    /\ IF cstep = Len(configure_render(cargs.samples, cargs.resolution))
       THEN /\ cstep' = 0
            /\ cstatus' = "between"
            /\ ccalls' = ccalls + 1
       ELSE /\ cstep' = cstep + 1
            /\ UNCHANGED <<cstatus, ccalls>>
    /\ UNCHANGED cargs
    /\ UNCHANGED <<mengerVars, sierpVars, verifyVars, placeVars, scriptVars>>

\* the script starts in the host's state
CfgLaunch ==
    /\ cstatus = "idle"
    /\ cstatus' = "between"
    /\ cworlds' \in PriorWorlds
    /\ cworld' = Len(cworlds')
    /\ crs' \in HostSettings
    /\ UNCHANGED <<cstep, cargs, ccalls>>
    /\ UNCHANGED <<mengerVars, sierpVars, verifyVars, placeVars, scriptVars>>

\* configure_render(samples=..., resolution=...) is called
CfgCall ==
    /\ cstatus = "between"
    /\ ccalls < MaxCalls
    /\ \E samples \in SampleCounts, resolution \in Resolutions :
          cargs' = [samples |-> samples, resolution |-> resolution]
    /\ cstatus' = "in call"
    /\ cstep' = 1
    /\ UNCHANGED <<ccalls, cworlds, cworld, crs>>
    /\ UNCHANGED <<mengerVars, sierpVars, verifyVars, placeVars, scriptVars>>

CfgSet ==
    /\ CfgAt("set")
    /\ crs' = [crs EXCEPT ![CfgCur.field] = CfgCur.value]
    /\ UNCHANGED <<cworlds, cworld>>
    /\ CfgCompleted

CfgHost ==
    /\ CfgAt("host")
    /\ UNCHANGED <<cworlds, cworld, crs>>
    /\ CfgCompleted

CfgWorld ==
    /\ CfgAt("make")
    /\ \E newTree \in NewWorldTrees :
          /\ cworlds' = WorldBlock(cworlds, newTree).worlds
          /\ cworld' = WorldBlock(cworlds, newTree).world
    /\ UNCHANGED crs
    /\ CfgCompleted

\* a host call raises: nothing in benchmark.py catches it
CfgRaises ==
    /\ cstatus = "in call"
    /\ cstatus' = Unhandled(cstep).status
    /\ cstep' = Unhandled(cstep).pc
    /\ UNCHANGED <<cargs, ccalls, cworlds, cworld, crs>>
    /\ UNCHANGED <<mengerVars, sierpVars, verifyVars, placeVars, scriptVars>>

ConfigInit ==
    /\ cstatus = "idle"
    /\ cstep = 0
    /\ cargs = [samples |-> 128, resolution |-> <<1920, 1080>>]
    /\ ccalls = 0
    /\ cworlds = <<>>
    /\ cworld = 0
    /\ crs = FactorySettings

ConfigNext ==
    \/ CfgLaunch
    \/ CfgCall
    \/ CfgSet
    \/ CfgHost
    \/ CfgWorld
    \/ CfgRaises

(***************************************************************************)
(* Specifications: one per script                                          *)
(***************************************************************************)
Init ==
    /\ MengerInit
    /\ SierpInit
    /\ VerifyInit
    /\ PlaceInit
    /\ ScriptInit
    /\ ConfigInit

Next ==
    \/ MengerNext
    \/ SierpNext
    \/ VerifyNext
    \/ PlaceNext
    \/ ScriptNext
    \/ ConfigNext

Spec == Init /\ [][Next]_vars

SpecMenger == Init /\ [][MengerNext]_vars

SpecSierpinski == Init /\ [][SierpNext]_vars

SpecVerify == Init /\ [][VerifyNext]_vars

SpecPlacement == Init /\ [][PlaceNext]_vars

SpecScripts == Init /\ [][ScriptNext]_vars

SpecConfigure == Init /\ [][ConfigNext]_vars

\* one of the two recursive generators is run, and a call that has started
\* keeps executing its next statement
GeneratorsNext ==
    \/ tpc = "start" /\ MengerNext
    \/ mpc = "start" /\ SierpNext

SpecGenerators == Init /\ [][GeneratorsNext]_vars /\ WF_vars(GeneratorsNext)

\* one script of the repository is run: the benchmark or a render script, or
\* the verification script
AllScriptsNext ==
    \/ vpc = "version" /\ ScriptNext
    \/ sstatus = "idle" /\ VerifyNext

SpecAllScripts == Init /\ [][AllScriptsNext]_vars

(***************************************************************************)
(* Claims about menger_sponge                                              *)
(***************************************************************************)
IsBenchCall ==
    mroot = [center |-> BenchCenter, size |-> BenchSize, depth |-> BenchDepth]

\* C1: for every depth d >= 0 the root call of menger_sponge creates exactly
\* 20^d host cubes, one per depth-0 call, and returns exactly those 20^d
\* objects; the benchmark's call (size 3.0, depth 2) returns 400 objects.
C1_MengerLeafCount ==
    mpc = "done" =>
        /\ Len(mresult) = Pow(20, mroot.depth)
        /\ Len(mscene) = Pow(20, mroot.depth)
        /\ \A k \in 1..Len(mresult) : mresult[k] = k
        /\ IsBenchCall => Len(mresult) = 400

C1_Witness ==
    /\ mpc = "done"
    /\ IsBenchCall
    /\ Len(mresult) = 400
    /\ Len(mscene) = 400

\* the centre cell and the six face-centre cells
CentreCross ==
    {<<0, 0, 0>>, <<1, 0, 0>>, <<-1, 0, 0>>, <<0, 1, 0>>, <<0, -1, 0>>,
     <<0, 0, 1>>, <<0, 0, -1>>}

\* C7: at every non-leaf call, the cell (x, y, z) the loops are at is recursed
\* into iff fewer than two of x, y, z are zero, i.e. iff it is not one of the 7
\* cells of the centre cross; the child has size = parent size / 3 and centre =
\* parent centre + offset * (parent size / 3); a call whose children are
\* leaves has made exactly 20 recursive calls when its loops are over.
C7_MengerChildRule ==
    [][(mpc = "running" /\ MTop.depth # 0) =>
          LET p == MTop
              off == <<CellX(p.i), CellY(p.i), CellZ(p.i)>>
              zeros == Cardinality({k \in 1..3 : off[k] = 0})
              recursed == Len(mstack') = Len(mstack) + 1
              child == mstack'[Len(mstack')]
          IN  /\ p.i < NumCells =>
                    /\ recursed <=> zeros < 2
                    /\ recursed <=> off \notin CentreCross
                    /\ recursed =>
                          /\ 3 * child.size = p.size
                          /\ \A k \in 1..3 :
                                3 * (child.center[k] - p.center[k]) = off[k] * p.size
                          /\ SubSeq(mstack', 1, Len(mstack)) = mstack
                    /\ ~recursed => mstack' = [mstack EXCEPT ![Len(mstack)].i = p.i + 1]
              /\ (p.i = NumCells /\ p.depth = 1) => Len(p.objects) = 20
      ]_vars

\* the 20th child of a call, the corner cell (1, 1, 1), is being run
C7_Witness ==
    /\ Len(mstack) >= 2
    /\ mstack[Len(mstack) - 1].i = 26
    /\ Len(mstack[Len(mstack) - 1].objects) = 19
    /\ 3 * MTop.size = mstack[Len(mstack) - 1].size
    /\ \A k \in 1..3 :
          3 * (MTop.center[k] - mstack[Len(mstack) - 1].center[k])
              = mstack[Len(mstack) - 1].size

\* the centre p lies in the axis-aligned cube of centre c and edge s
InCube(p, c, s) == \A k \in 1..3 : 2 * Abs(p[k] - c[k]) <= s

\* C8: every leaf produced beneath a call menger_sponge(c, s, d), at any
\* recursion level, has its centre within s/2 of c on each axis.  A call's
\* list of leaves changes only when one of its children returns, and the call
\* is then the running one: the leaves the running call has collected so far,
\* and the leaves the root call returned, all lie in the call's cube.
C8_MengerLeavesInCube ==
    /\ mpc = "running" =>
          \A k \in 1..Len(MTop.objects) :
             InCube(mscene[MTop.objects[k]].location, MTop.center, MTop.size)
    /\ mpc = "done" =>
          \A k \in 1..Len(mresult) :
             InCube(mscene[mresult[k]].location, mroot.center, mroot.size)

\* a depth-2 root call has returned a leaf 4/9 of its size away from its centre
C8_Witness ==
    /\ mpc = "done"
    /\ mroot.depth = 2
    /\ mroot.center # BenchCenter
    /\ \E k \in 1..Len(mresult) :
          9 * Abs(mscene[mresult[k]].location[1] - mroot.center[1]) = 4 * mroot.size

\* 7*x + 13*y + 19*z for the centre c, in fixed point
WeightedSum(c) == 7 * c[1] + 13 * c[2] + 19 * c[3]

\* C12: the material of a leaf is a function of the leaf's centre alone: for
\* the leaf just created at (x, y, z), the index q with
\* q <= |7x + 13y + 19z| < q + 1, reduced modulo the 4 materials, is the
\* material the leaf was given, and it is a valid position 0..3; the scene
\* only grows, so this holds of every leaf when it is created, and leaves with
\* equal centres get equal materials.
C12_MengerMaterialByCentre ==
    /\ mscene # <<>> =>
          LET leaf == mscene[Len(mscene)]
              w == WeightedSum(leaf.location)
              a == IF w < 0 THEN -w ELSE w
          IN  /\ leaf.material \in 0..3
              /\ \E q \in 0..(a \div FP + 1) :
                    /\ q * FP <= a
                    /\ a < (q + 1) * FP
                    /\ leaf.material = q % 4
    /\ mpc = "done" => \A k \in 1..Len(mscene) : mscene[k].material \in 0..3

\* the benchmark's call has created a leaf whose weighted sum is negative and
\* whose material is the last of the four
C12_Witness ==
    /\ IsBenchCall
    /\ mscene # <<>>
    /\ WeightedSum(mscene[Len(mscene)].location) < -FP
    /\ mscene[Len(mscene)].material = 3

\* the edge of the leaves beneath the root call: size / 3^depth
LeafEdge == mroot.size \div Pow(3, mroot.depth)

LeafCentres == {mscene[k].location : k \in 1..Len(mscene)}

\* the point c is the root centre moved by whole leaf edges along each axis
OnLeafLattice(c) == \A a \in 1..3 : (c[a] - mroot.center[a]) % LeafEdge = 0

\* the open cubes a and b have a point in common
InteriorsOverlap(a, b) ==
    \A ax \in 1..3 : 2 * Abs(a.location[ax] - b.location[ax]) < a.size + b.size

VDone == vpc = "done"

FailLines == {k \in 1..Len(lines) : lines[k].status = "FAIL"}

\* the capability a result line reports on, by the line's name: 1 version,
\* 2 CUDA device enumeration, 3 GPU render, 4 CPU render, 5 core Python API,
\* 6 OBJ export, 7 .blend save, 8 geometry nodes, 9 compositor
CapOf(name) ==
    CASE name = "Blender version" -> 1
      [] name \in {"CUDA devices found", "CUDA detection"} -> 2
      [] name = "Cycles GPU render" -> 3
      [] name = "Cycles CPU render" -> 4
      [] name \in {"Add mesh (Suzanne)", "Add modifier", "Material + nodes",
                   "Python API"} -> 5
      [] name = "OBJ export" -> 6
      [] name = ".blend save" -> 7
      [] name = "Geometry nodes" -> 8
      [] name \in {"Compositor node", "Compositor"} -> 9
      [] OTHER -> 0

\* the capability of each try-wrapped section
CapOfSection(sec) == SecIndex(sec) + 1

LineNames == [k \in 1..Len(lines) |-> lines[k].name]

\* the names of the 11 checks of a run in which nothing raises
ElevenChecks ==
    <<"Blender version", "CUDA devices found", "Cycles GPU render",
      "Cycles CPU render", "Add mesh (Suzanne)", "Add modifier",
      "Material + nodes", "OBJ export", ".blend save", "Geometry nodes",
      "Compositor node">>

\* C3: the script ends with status 1 iff at least one check was recorded as
\* failed when the summary was printed, and with status 0 (it runs off its end)
\* otherwise, whatever the checks' outcomes and whatever was raised inside the
\* try blocks; it never exits before the summary.
C3_ExitStatus ==
    /\ VDone => /\ exitStatus \in {0, 1}
                /\ exitStatus = 1 <=> FAIL > 0
                /\ exitStatus = 1 <=> FailLines # {}
    /\ ~VDone => exitStatus = -1

\* a run whose only failure is an exception caught in the GPU render section
C3_Witness ==
    /\ VDone
    /\ exitStatus = 1
    /\ FAIL = 1
    /\ raisedIn["gpu"] = "boom"

\* C4: when an exception is raised inside one of the eight try-wrapped
\* sections, that section records exactly one failure, under the name of its
\* except clause and with the exception text as detail; the script goes on
\* (no state before the end is stuck), and at the end every later section
\* has reported at least one line.
C4_ExceptionIsolated ==
    /\ \A j \in 1..Len(Sections) :
          LET sec == Sections[j]
              mine == {k \in FailLines : CapOf(lines[k].name) = CapOfSection(sec)}
          IN  raisedIn[sec] # NoExc =>
                 /\ Cardinality(mine) = 1
                 /\ \A k \in mine :
                       /\ lines[k].name = HandlerName(sec)
                       /\ lines[k].suffix = " (" \o raisedIn[sec] \o ")"
                 /\ VDone =>
                       \A j2 \in (j + 1)..Len(Sections) :
                          \E k \in 1..Len(lines) :
                             CapOf(lines[k].name) = CapOfSection(Sections[j2])
    /\ ~VDone => ENABLED VerifyNext

\* the device loop of the CUDA section raised after its check had passed, and
\* the last section, the compositor, passed all the same
C4_Witness ==
    /\ VDone
    /\ raisedIn["cuda"] = "boom"
    /\ \E k \in 1..Len(lines) :
          lines[k].name = "CUDA devices found" /\ lines[k].status = "PASS"
    /\ raisedIn["api"] = AttrErrorName
    /\ lines[Len(lines)] =
          [status |-> "PASS", name |-> "Compositor node", suffix |-> " (Blur)"]

\* C5: (a) a run with no failure records the 11 checks as PASS, prints
\* "ALL TESTS PASSED" and ends with status 0; (b) a run whose only failure is
\* the check "CUDA devices found" still runs every later section: the other 10
\* checks are recorded as PASS, the summary says "1 FAILED" and the status is 1;
\* "ALL TESTS PASSED" is printed iff FAIL = 0.
C5_EndToEnd ==
    /\ (VDone /\ FAIL = 0) =>
          /\ PASS = 11
          /\ LineNames = ElevenChecks
          /\ summary = "Results: 11/11 passed - ALL TESTS PASSED"
          /\ exitStatus = 0
    /\ (VDone /\ FAIL = 1
          /\ \E k \in FailLines : lines[k].name = "CUDA devices found") =>
          /\ PASS = 10
          /\ LineNames = ElevenChecks
          /\ FailLines = {2}
          /\ summary = "Results: 10/11 passed, 1 FAILED"
          /\ exitStatus = 1
    /\ summary # "" =>
          (summary = "Results: " \o ToString(PASS) \o "/" \o ToString(PASS + FAIL)
                       \o " passed - ALL TESTS PASSED"
             <=> FAIL = 0)
    /\ summary = "" <=> vpc \notin {"exit", "done"}

\* scenario (b): no CUDA device is named, everything else succeeds
C5_Witness ==
    /\ VDone
    /\ lines[2] = [status |-> "FAIL", name |-> "CUDA devices found", suffix |-> ""]
    /\ FAIL = 1
    /\ PASS = 10
    /\ exitStatus = 1
    /\ Len(renders) = 2

\* C6: in every run the result lines appear in the order of the capabilities
\* (version, CUDA device enumeration, GPU render, CPU render, core Python API,
\* OBJ export, .blend save, geometry nodes, compositor), each line is a PASS or
\* a FAIL line, and when the summary is reached every one of the nine
\* capabilities has produced at least one line.
C6_LinePerCapabilityInOrder ==
    /\ \A k \in 1..Len(lines) :
          /\ lines[k].status \in {"PASS", "FAIL"}
          /\ CapOf(lines[k].name) \in 1..9
          /\ k > 1 => CapOf(lines[k - 1].name) <= CapOf(lines[k].name)
    /\ vpc \in {"summary", "exit", "done"} =>
          \A c \in 1..9 : \E k \in 1..Len(lines) : CapOf(lines[k].name) = c

\* a run in which the version check failed, the GPU render section raised
\* before binding `scene`, the CPU render section raised in turn and the
\* compositor section raised still has a line for each capability
C6_Witness ==
    /\ VDone
    /\ lines[1].status = "FAIL"
    /\ raisedIn["gpu"] = "boom"
    /\ raisedIn["cpu"] = NameErrorScene
    /\ raisedIn["comp"] = "boom"
    /\ Len(lines) = 11

\* C19: whenever the CPU render is invoked, the scene is configured as the
\* section's header prints (64x64 at 100%, 4 samples, Cycles), the device is
\* CPU and the output path is /tmp/blender_test_cpu.png, whatever happened in
\* the GPU render section.  The CPU render calls are the render calls made with
\* the CPU section's output path.
C19_CpuRenderConfigured ==
    \A k \in 1..Len(renders) :
       renders[k].filepath = "/tmp/blender_test_cpu.png" =>
          /\ renders[k].resolution_x = "64"
          /\ renders[k].resolution_y = "64"
          /\ renders[k].resolution_percentage = "100"
          /\ renders[k].samples = "4"
          /\ renders[k].engine = "CYCLES"
          /\ renders[k].device = "CPU"

\* C20: when the condition of a named check is false, a FAIL line carrying
\* the check's own name is printed and FAIL counts it: every check whose
\* condition evaluated to false has its FAIL line, and FAIL is the number of
\* FAIL lines.
C20_FalseConditionReportedByName ==
    /\ \A name \in condFalse :
          \E k \in FailLines : lines[k].name = name
    /\ FAIL = Cardinality(FailLines)

\* the total the "Results:" line prints, between "/" and " passed"
SummaryWithTotal(total) ==
    "Results: " \o ToString(PASS) \o "/" \o ToString(total) \o " passed"
       \o SummaryTail(FAIL)

\* C21: every call of test() adds one to exactly one of PASS and FAIL (PASS
\* when the condition is true, FAIL otherwise) and leaves the other alone,
\* prints exactly one result line, of that status, and returns the condition;
\* no other step touches the counters, the lines or prints a result.  At every
\* point PASS + FAIL is the number of result lines printed so far, neither
\* counter ever decreases, and the total of the summary is PASS + FAIL.
C21_TestCountsOnce ==
    /\ [](/\ PASS + FAIL = Len(lines)
          /\ Len(returned) = Len(lines)
          /\ summary # "" => summary = SummaryWithTotal(Len(lines)))
    /\ [][/\ PASS' >= PASS
          /\ FAIL' >= FAIL
          /\ \/ /\ Len(returned') = Len(returned) + 1
                /\ Len(lines') = Len(lines) + 1
                /\ SubSeq(lines', 1, Len(lines)) = lines
                /\ SubSeq(returned', 1, Len(returned)) = returned
                /\ LET condition == returned'[Len(returned')]
                       line == lines'[Len(lines')]
                   IN  IF condition
                       THEN /\ PASS' = PASS + 1
                            /\ FAIL' = FAIL
                            /\ line.status = "PASS"
                       ELSE /\ FAIL' = FAIL + 1
                            /\ PASS' = PASS
                            /\ line.status = "FAIL"
             \/ UNCHANGED <<PASS, FAIL, lines, returned>>]_vars

\* a finished run in which test() was called with a true and with a false
\* condition, by a check and by an except clause
C21_Witness ==
    /\ VDone
    /\ PASS = 7
    /\ FAIL = 2
    /\ Len(lines) = 9
    /\ returned[1] = TRUE
    /\ returned[2] = FALSE
    /\ raisedIn["api"] = AttrErrorName
    /\ summary = "Results: 7/9 passed, 2 FAILED"

(***************************************************************************)
(* Claims about configure_render                                           *)
(***************************************************************************)
\* the worlds this run created
MadeWorlds == {k \in 1..Len(cworlds) : cworlds[k].made}

\* C22: configure_render does not accumulate state across calls.  After any
\* number n >= 1 of calls in one run exactly one world named "Benchmark
\* World" has been created, it is the scene's world, and its node tree has
\* exactly three nodes (world output, background, volume scatter) and exactly
\* two links (background to the output's surface, volume scatter to the
\* output's volume); the render settings the function assigns are those of
\* the most recent call.  The first call creates the world, a later call
\* creates none and leaves the list of worlds as long as it was.
C22_ConfigureDoesNotAccumulate ==
    /\ []((cstatus = "between" /\ ccalls >= 1) =>
            /\ MadeWorlds = {Len(cworlds)}
            /\ {k \in 1..Len(cworlds) : cworlds[k].name = BenchmarkWorld}
                 = {Len(cworlds)}
            /\ cworld = Len(cworlds)
            /\ cworlds[cworld].tree.nodes =
                 <<"ShaderNodeOutputWorld", "ShaderNodeBackground",
                   "ShaderNodeVolumeScatter">>
            /\ Cardinality(cworlds[cworld].tree.links) = 2
            /\ cworlds[cworld].tree.links =
                 {[from |-> 2, output |-> "Background", to |-> 1, input |-> "Surface"],
                  [from |-> 3, output |-> "Volume", to |-> 1, input |-> "Volume"]}
            /\ crs.engine = "CYCLES"
            /\ crs.device = "GPU"
            /\ crs.samples = ToString(cargs.samples)
            /\ crs.resolution_x = ToString(cargs.resolution[1])
            /\ crs.resolution_y = ToString(cargs.resolution[2])
            /\ crs.resolution_percentage = "100"
            /\ crs.file_format = "PNG"
            /\ crs.color_depth = "16")
    /\ [][/\ ccalls >= 1 => Len(cworlds') = Len(cworlds)
          /\ (ccalls = 0 /\ cstatus = "in call" /\ Len(cworlds') # Len(cworlds)) =>
                /\ Len(cworlds') = Len(cworlds) + 1
                /\ cworlds'[Len(cworlds')].name = BenchmarkWorld]_vars

\* three calls have returned, the last with the arguments of the full
\* render, in a run started from the factory file
C22_Witness ==
    /\ cstatus = "between"
    /\ ccalls = 3
    /\ Len(cworlds) = 2
    /\ cworlds[1].name = "World"
    /\ cargs = [samples |-> 128, resolution |-> <<1920, 1080>>]
    /\ crs.samples = "128"
    /\ crs.resolution_x = "1920"

(***************************************************************************)
(* Claims about sierpinski                                                 *)
(***************************************************************************)
IsGlassCall ==
    troot = [center |-> GlassCenter, size |-> GlassSize, depth |-> GlassDepth]

\* C2: for every depth d >= 0, sierpinski started on an empty list leaves
\* exactly 4^d leaf tetrahedra in it, each a host object of its own; the
\* script's call (size 3.0, depth 4) leaves exactly 256.
C2_SierpinskiLeafCount ==
    tpc = "done" =>
        /\ Len(tobjects) = Pow(4, troot.depth)
        /\ Len(tscene) = Pow(4, troot.depth)
        /\ \A k \in 1..Len(tobjects) : tobjects[k] = k
        /\ IsGlassCall => Len(tobjects) = 256

C2_Witness ==
    /\ tpc = "done"
    /\ IsGlassCall
    /\ Len(tobjects) = 256
    /\ Len(tscene) = 256

\* C9: at every non-leaf call sierpinski(c, s, d) the next step is a
\* recursive call while fewer than four have been made, for the vertices of
\* tetrahedron_verts(c, s) in list order, with size s/2, depth d - 1 and centre
\* the midpoint of c and the vertex; the call returns after the fourth, and a
\* child's return moves its caller to the next vertex.
C9_SierpinskiChildRule ==
    [][(tpc = "running") =>
          LET p == TTop
              v == TetVerts(p.center, p.size)
              child == tstack'[Len(tstack')]
          IN  /\ (p.depth # 0 /\ p.vi <= 4) =>
                    /\ Len(tstack') = Len(tstack) + 1
                    /\ SubSeq(tstack', 1, Len(tstack)) = tstack
                    /\ 2 * child.size = p.size
                    /\ child.depth = p.depth - 1
                    /\ child.vi = 1
                    /\ \A k \in 1..3 : 2 * child.center[k] = p.center[k] + v[p.vi][k]
              /\ (p.depth # 0 /\ p.vi > 4) =>
                    /\ p.vi = 5
                    /\ Len(tstack') = Len(tstack) - 1
              /\ (Len(tstack') = Len(tstack) - 1 /\ Len(tstack) > 1) =>
                    tstack' = [TPop EXCEPT ![Len(tstack) - 1].vi =
                                   tstack[Len(tstack) - 1].vi + 1]
      ]_vars

\* the fourth child of a call is running: its centre is the midpoint of the
\* caller's centre and the caller's fourth vertex
C9_Witness ==
    /\ Len(tstack) >= 2
    /\ tstack[Len(tstack) - 1].vi = 4
    /\ 2 * TTop.size = tstack[Len(tstack) - 1].size
    /\ 2 * TTop.center[2] =
          2 * tstack[Len(tstack) - 1].center[2]
            + (tstack[Len(tstack) - 1].size * 577) \div 1000
    /\ TTop.center[1] = tstack[Len(tstack) - 1].center[1]

\* the four vertices of the root call's tetrahedron
RootVerts == TetVerts(troot.center, troot.size)

\* the weights, in units of 1/2^depth, with which the point p is a
\* combination of the root's vertices: vertex 0 alone has the top z, vertices
\* 1 and 2 differ in x only, vertex 3 alone has the far y
Bary(p) ==
    LET n == Pow(2, troot.depth)
        zTop == TMul(troot.size, 612)
        zBase == TMul(troot.size, 204)
        xHalf == TMul(troot.size, 500)
        yNear == TMul(troot.size, 289)
        yFar == TMul(troot.size, 577)
        a0 == (n * (p[3] - troot.center[3] + zBase)) \div (zTop + zBase)
        a12 == (yFar * (n - a0) - n * (p[2] - troot.center[2])) \div (yNear + yFar)
        dx == (n * (p[1] - troot.center[1])) \div xHalf
    IN  <<a0, (a12 + dx) \div 2, (a12 - dx) \div 2, n - a0 - a12>>

\* p is a convex combination of the root's vertices, with weights that are
\* multiples of 1/2^depth
InRootHull(p) ==
    LET n == Pow(2, troot.depth)
        a == Bary(p)
    IN  /\ \A j \in 1..4 : a[j] \in 0..n
        /\ a[1] + a[2] + a[3] + a[4] = n
        /\ \A ax \in 1..3 :
              n * p[ax] = a[1] * RootVerts[1][ax] + a[2] * RootVerts[2][ax]
                            + a[3] * RootVerts[3][ax] + a[4] * RootVerts[4][ax]

\* the leaves that have the point p among their vertices
LeavesAt(p) == {k \in 1..Len(tscene) : \E j \in 1..4 : tscene[k].verts[j] = p}

\* C24: corner sharing holds at every subdivision, in exact arithmetic: when
\* a call with centre c and size s makes its i-th recursive call (centre the
\* midpoint of c and vertex v_i, size s/2), the child's own i-th vertex is the
\* caller's v_i, and the child's j-th vertex is the midpoint of v_i and v_j.
\* Hence every vertex of every leaf is a convex combination of the root
\* tetrahedron's vertices (checked of each leaf when it is created), and when
\* the root call has returned each of the root's four vertices is a vertex of
\* exactly one leaf.
C24_SierpinskiCornerSharing ==
    /\ [](tscene # <<>> =>
            \A j \in 1..4 : InRootHull(tscene[Len(tscene)].verts[j]))
    /\ [](tpc = "done" =>
            \A i \in 1..4 : Cardinality(LeavesAt(RootVerts[i])) = 1)
    /\ [][(tpc = "running" /\ TTop.depth # 0 /\ Len(tstack') = Len(tstack) + 1) =>
            LET i == TTop.vi
                v == TetVerts(TTop.center, TTop.size)
                child == tstack'[Len(tstack')]
                cv == TetVerts(child.center, child.size)
            IN  /\ cv[i] = v[i]
                /\ \A j \in 1..4 : \A ax \in 1..3 : 2 * cv[j][ax] = v[i][ax] + v[j][ax]
          ]_vars

\* the script's call has returned: its first leaf holds the root's top vertex,
\* its last leaf the root's fourth vertex, and a leaf in between holds a
\* point that is no vertex of the root
C24_Witness ==
    /\ tpc = "done"
    /\ IsGlassCall
    /\ tscene[1].verts[1] = RootVerts[1]
    /\ tscene[256].verts[4] = RootVerts[4]
    /\ Bary(tscene[100].verts[2]) = <<2, 9, 4, 1>>

DepthsStepDown(stack, rootDepth) ==
    \A k \in 1..Len(stack) :
       /\ stack[k].depth = rootDepth - (k - 1)
       /\ stack[k].depth >= 0

\* the steps a call of menger_sponge at the depth takes: at depth 0 one (the
\* leaf), else one per cell of the 27, the steps of its 20 children, and the
\* return
RECURSIVE MengerWork(_)
MengerWork(d) == IF d = 0 THEN 1 ELSE 27 + 20 * MengerWork(d - 1) + 1

\* the cells from i on that are not on the centre cross
CellsLeft(i) == Cardinality({j \in i..26 : <<CellX(j), CellY(j), CellZ(j)>> \notin CentreCross})

\* the steps the calls on the stack have left to take: the running call from
\* its current cell on, its callers from the cell after the one they wait in
RECURSIVE MengerRank(_)
MengerRank(k) ==
    IF k = 0 THEN 0
    ELSE LET f == mstack[k]
             from == IF k = Len(mstack) THEN f.i ELSE f.i + 1
         IN  MengerRank(k - 1)
               + (IF f.depth = 0 THEN 1
                  ELSE (27 - from) + CellsLeft(from) * MengerWork(f.depth - 1) + 1)

\* the same for sierpinski: a call at depth d > 0 makes four recursive calls
\* and returns
RECURSIVE SierpWork(_)
SierpWork(d) == IF d = 0 THEN 1 ELSE 4 + 4 * SierpWork(d - 1) + 1

RECURSIVE SierpRank(_)
SierpRank(k) ==
    IF k = 0 THEN 0
    ELSE LET f == tstack[k]
             from == IF k = Len(tstack) THEN f.vi ELSE f.vi + 1
         IN  SierpRank(k - 1)
               + (IF f.depth = 0 THEN 1
                  ELSE (5 - from) * (1 + SierpWork(f.depth - 1)) + 1)

\* C18: for every root depth >= 0 both generators terminate: every call on
\* the stack has a depth one less than its caller's and none is negative; a
\* call creates a leaf and returns without recursing iff its depth is 0; a
\* call that has not returned always has a next step, and every step takes
\* the number of steps left, a natural number that starts at the work of the
\* root depth, down by exactly one, to 0 when the root call returns.
C18_GeneratorsTerminate ==
    /\ [](/\ DepthsStepDown(mstack, mroot.depth)
          /\ DepthsStepDown(tstack, troot.depth)
          /\ mpc = "running" =>
                /\ ENABLED MengerLeaf <=> MTop.depth = 0
                /\ MTop.depth = 0 => ~ENABLED MengerRecurse
                /\ ENABLED MengerNext
                /\ MengerRank(Len(mstack)) > 0
          /\ tpc = "running" =>
                /\ ENABLED SierpLeaf <=> TTop.depth = 0
                /\ TTop.depth = 0 => ~ENABLED SierpRecurse
                /\ ENABLED SierpNext
                /\ SierpRank(Len(tstack)) > 0
          /\ mpc = "done" => mstack = <<>>
          /\ tpc = "done" => tstack = <<>>)
    /\ [][/\ mpc = "start" /\ mpc' = "running" =>
                MengerRank(Len(mstack))' = MengerWork(mroot'.depth)
          /\ mpc = "running" =>
                /\ MengerRank(Len(mstack))' = MengerRank(Len(mstack)) - 1
                /\ mpc' = "done" <=> MengerRank(Len(mstack)) = 1
          /\ tpc = "start" /\ tpc' = "running" =>
                SierpRank(Len(tstack))' = SierpWork(troot'.depth)
          /\ tpc = "running" =>
                /\ SierpRank(Len(tstack))' = SierpRank(Len(tstack)) - 1
                /\ tpc' = "done" <=> SierpRank(Len(tstack)) = 1
      ]_vars

\* the deepest call of the script's Sierpinski run is on the stack: five
\* calls, of depths 4, 3, 2, 1, 0
C18_Witness ==
    /\ IsGlassCall
    /\ tpc = "running"
    /\ Len(tstack) = 5
    /\ TTop.depth = 0
    /\ tstack[1].depth = 4

(***************************************************************************)
(* Claims about the seeded placement                                       *)
(***************************************************************************)
IsPrefix(a, b) == Len(a) <= Len(b) /\ a = SubSeq(b, 1, Len(a))

MakeSteps == {k \in 1..Len(slog) : slog[k].op = "make"}

\* the benchmark and the render scripts: a clear step that completed comes
\* before every creating step, and no object from before the run is present
\* when one runs
ClearsFirst ==
    \A k \in MakeSteps :
       /\ slog[k].prior = {}
       /\ \E j \in 1..(k - 1) : slog[j].op = "clear" /\ slog[j].ok

\* C14 as stated: every script of the repository, the verification script
\* included, clears the scene before it creates anything, so that no object
\* from before the run is present when the script's geometry is built.
C14_EveryScriptClearsFirst ==
    /\ ClearsFirst
    /\ vscene.built # <<>> => vscene.prior = {}

\* C14, amended: benchmark.py and the four render scripts clear the scene
\* before they create any object, material or light, and no object from before
\* the run is present when their geometry is built; test_blender.py has no
\* clearing step: the objects it was started with are still in the scene when
\* it adds its own.
C14_BuildScriptsClearFirst ==
    /\ ClearsFirst
    /\ sstatus \in {"running", "finished", "aborted"} =>
          /\ slog # <<>> => slog[1].op = "clear"
          /\ (Len(slog) > 1 \/ sstatus = "finished") => sscene.prior = {}
    /\ vscene.prior = {"Cube", "Light", "Camera"}

\* the benchmark, started in the factory scene, has built its sponge in a
\* scene from which the cube, the light and the camera were deleted
C14_Witness ==
    /\ sname = "benchmark"
    /\ Len(slog) >= 4
    /\ slog[1].op = "clear"
    /\ slog[1].prior = {"Cube", "Light", "Camera"}
    /\ slog[4].what = "sponge"
    /\ slog[4].ok
    /\ slog[4].prior = {}

\* the render calls of the log
RenderSteps == {k \in 1..Len(slog) : slog[k].op = "render"}

\* the files each script renders to
OutputFiles ==
    [benchmark |-> {"/tmp/blender_benchmark/benchmark_preview.png",
                    "/tmp/blender_benchmark/benchmark_720p.png",
                    "/tmp/blender_benchmark/benchmark_1080p.png"},
     glass_fractal |-> {"/tmp/blender_renders/glass_fractal.png"},
     crystal_cave |-> {"/tmp/blender_renders/crystal_cave.png"},
     infinite_mirrors |-> {"/tmp/blender_renders/infinite_mirrors.png"},
     golden_spiral |-> {"/tmp/blender_renders/golden_spiral.png"}]

TestOutputFiles == {"/tmp/blender_test_gpu.png", "/tmp/blender_test_cpu.png"}

\* a completed assignment to the setting comes before step k of the log
SetBefore(field, k) ==
    \E j \in 1..(k - 1) : slog[j].op = "set" /\ slog[j].what = field /\ slog[j].ok

\* the benchmark and the render scripts: every render call runs with the
\* format PNG, the depth 16 and one of the script's own output files, each
\* assigned by the script before the call
RendersPng16 ==
    \A k \in RenderSteps :
       /\ slog[k].rs.file_format = "PNG"
       /\ slog[k].rs.color_depth = "16"
       /\ slog[k].rs.filepath \in OutputFiles[sname]
       /\ SetBefore("file_format", k)
       /\ SetBefore("color_depth", k)
       /\ SetBefore("filepath", k)

\* C15 as stated: at every render call of any script, the verification script
\* included, the script has set the format PNG, the depth 16 and a hard-coded
\* output path under a fixed temporary directory.
C15_EveryRenderPng16 ==
    /\ RendersPng16
    /\ \A k \in 1..Len(renders) :
          /\ renders[k].file_format = "PNG"
          /\ renders[k].color_depth = "16"
          /\ renders[k].filepath \in TestOutputFiles

\* C15, amended: at every render call of the benchmark or of a render script
\* the script has set the format PNG, the depth 16 and a hard-coded output
\* path under a fixed temporary directory; before each of its two render
\* calls test_blender.py sets only the output path, a hard-coded file under
\* /tmp, and the format and the depth are what the host started with.
C15_BuildScriptsRenderPng16 ==
    /\ RendersPng16
    /\ Len(renders) <= 2
    /\ \A k \in 1..Len(renders) :
          /\ renders[k].filepath \in TestOutputFiles
          /\ k = 2 => renders[k].filepath = "/tmp/blender_test_cpu.png"
          /\ renders[k].file_format = FactorySettings.file_format
          /\ renders[k].color_depth = FactorySettings.color_depth

\* the benchmark, started with JPEG output settings, has made its third
\* render call, to benchmark_1080p.png as a 16-bit PNG
C15_Witness ==
    /\ sname = "benchmark"
    /\ slog # <<>>
    /\ slog[1].rs.file_format = "JPEG"
    /\ Cardinality(RenderSteps) = 3
    /\ \E k \in RenderSteps :
          /\ slog[k].rs.filepath = "/tmp/blender_benchmark/benchmark_1080p.png"
          /\ slog[k].rs.file_format = "PNG"
          /\ slog[k].rs.color_depth = "16"

\* the steps of the log in which a host call raised
RaisedSteps == {k \in 1..Len(slog) : ~slog[k].ok}

\* C16: the benchmark and the render scripts handle no error: a step in which
\* a host call raises is the last step the script runs (the script has
\* aborted there and no further step is possible); a script that has not
\* aborted has had no exception; in the benchmark, when the preview render
\* raises, no other render, no report and no .blend save has happened or can
\* happen.
C16_NoErrorHandling ==
    /\ \A k \in RaisedSteps : k = Len(slog) /\ sstatus = "aborted"
    /\ sstatus = "aborted" =>
          /\ RaisedSteps = {Len(slog)}
          /\ spc = Len(slog)
          /\ slog[Len(slog)].what = Steps(sname)[spc].what
          /\ ~ENABLED ScriptNext
    /\ sstatus = "finished" =>
          /\ Len(slog) = Len(Steps(sname))
          /\ ~ENABLED ScriptNext
    /\ sstatus = "running" => ENABLED ScriptNext
    /\ (sname = "benchmark" /\ sstatus = "aborted"
          /\ slog[Len(slog)].op = "render"
          /\ slog[Len(slog)].rs.filepath = "/tmp/blender_benchmark/benchmark_preview.png") =>
          /\ Cardinality(RenderSteps) = 1
          /\ \A k \in 1..Len(slog) : slog[k].op \notin {"report", "save"}

\* the benchmark's preview render raised: the script stopped there
C16_Witness ==
    /\ sname = "benchmark"
    /\ sstatus = "aborted"
    /\ slog[Len(slog)].op = "render"
    /\ ~slog[Len(slog)].ok
    /\ slog[Len(slog)].rs.samples = "16"
    /\ Len(slog) = 22

\* the names of the steps k..(k + n - 1) of the log
LogNames(k, n) == [j \in 1..n |-> slog[k + j - 1].what]

\* the k-th render call of the log, as a position in the log
RECURSIVE NthRender(_, _)
NthRender(k, from) ==
    IF slog[from].op = "render"
    THEN IF k = 1 THEN from ELSE NthRender(k - 1, from + 1)
    ELSE NthRender(k, from + 1)

\* C17: in the benchmark the scene is set up exactly once (clear, materials,
\* sponge, lights, camera), before anything else; there are at most three
\* render calls, the k-th with the samples, resolution and output path of the
\* preview (16, 480x270), the medium (64, 1280x720) and the full (128,
\* 1920x1080) render; the 13 steps before each render call are the
\* statements of configure_render and the assignment of the output path; the
\* report and the .blend save come only after three completed renders.
C17_BenchmarkOrder ==
    sname = "benchmark" =>
       /\ \A k \in 1..Len(slog) :
             /\ k <= 8 => slog[k].what =
                   <<"clear", "materials", "Menger Sponge collection", "sponge",
                     "Ground", "Core Light", "area lights", "Benchmark Camera">>[k]
             /\ k > 8 => slog[k].op # "clear" /\ slog[k].what \notin
                   {"materials", "Menger Sponge collection", "sponge", "Ground",
                    "Core Light", "area lights", "Benchmark Camera"}
             /\ slog[k].op \in {"report", "save"} =>
                   Cardinality({j \in RenderSteps : j < k /\ slog[j].ok}) = 3
       /\ Cardinality(RenderSteps) <= 3
       /\ \A n \in 1..Cardinality(RenderSteps) :
             LET k == NthRender(n, 1)
                 want == << <<"16", "480", "270", "benchmark_preview.png">>,
                            <<"64", "1280", "720", "benchmark_720p.png">>,
                            <<"128", "1920", "1080", "benchmark_1080p.png">> >>[n]
             IN  /\ slog[k].rs.samples = want[1]
                 /\ slog[k].rs.resolution_x = want[2]
                 /\ slog[k].rs.resolution_y = want[3]
                 /\ slog[k].rs.resolution_percentage = "100"
                 /\ slog[k].rs.engine = "CYCLES"
                 /\ slog[k].rs.device = "GPU"
                 /\ slog[k].rs.filepath = "/tmp/blender_benchmark/" \o want[4]
                 /\ k = 8 + 14 * n
                 /\ LogNames(k - 13, 13) =
                       <<"engine", "device", "samples", "use_denoising", "prefs",
                         "resolution_x", "resolution_y", "resolution_percentage",
                         "film_transparent", "world", "file_format", "color_depth",
                         "filepath">>
                 /\ \A j \in (k - 13)..(k - 1) : slog[j].ok
       /\ sstatus = "finished" =>
             /\ Cardinality(RenderSteps) = 3
             /\ slog[Len(slog) - 1].op = "report"
             /\ slog[Len(slog)].op = "save"

\* the benchmark has run to its end: 8 setup steps, three times 14 steps for
\* a render, the report and the save
C17_Witness ==
    /\ sname = "benchmark"
    /\ sstatus = "finished"
    /\ Len(slog) = 52
    /\ Cardinality({k \in RenderSteps : slog[k].ok}) = 3
    /\ slog[52].op = "save"
    /\ slog[52].ok

====
